---- MODULE Spec2Model ----
(***************************************************************************)
(* memequeue: a single-producer/single-consumer byte-message queue over a  *)
(* double-mapped shared ring (src/src/lib.rs) with one futex word per side *)
(* (src/src/shmem_mutex.rs).                                               *)
(*                                                                         *)
(* The producer thread runs MemeQueue::write (with MemeWriter::write and   *)
(* alloc_for_write inlined as program positions), the consumer thread runs *)
(* MemeQueue::read.  Every atomic load, store, read-modify-write, memcpy   *)
(* and futex syscall of the source is one step.  The ring is modelled byte *)
(* by byte; the two mappings alias, so virtual offset v in [0, 2Q) is the  *)
(* physical byte v % Q.  An access outside [0, 2Q) leaves the mapping and  *)
(* is undefined: either the run ends there with fault = TRUE (SIGSEGV), or *)
(* the access hits foreign memory (a write is lost to the ring, a read     *)
(* returns stray bytes) and the run goes on.                               *)
(***************************************************************************)
EXTENDS Integers, Sequences, FiniteSets, TLC

\* ---------------------------------------------------------------- sizes

\* The page size of the model (sysconf(_SC_PAGESIZE) in the program): the
\* ring is a few bytes long.
PAGE_SIZE == 16

\* The `size` argument of MemeQueue::from_path.
RequestedSize == 16

\* size_of the in-band length prefix: the literal 8 of MemeQueue::write.
PrefixSize == 8

\* Width of usize in the model: offsets wrap modulo 2^UsizeBits.
UsizeBits == 12

\* Number of write() calls (sends) the producer makes.
MaxSends == 2

\* Number of MemeWriter::write calls one callback makes.
MaxWrites == 1

\* Number of Write actions of a single-threaded run (tests::simple).
MaxSeqSends == 4

\* Sends started in the runs of the intended use with two threads.
MaxFitSends == 3

NextMultipleOf(n, m) == ((n + m - 1) \div m) * m

\* self.size: the requested size rounded up to a page multiple.
QueueSize == NextMultipleOf(RequestedSize, PAGE_SIZE)

UsizeMod == 2 ^ UsizeBits

\* buf.len() of one MemeWriter::write call.
BufLens ==
    {0, 1, QueueSize - PrefixSize, QueueSize, QueueSize + PrefixSize + 1}

\* The threads that call write and the threads that call read.  Spec runs
\* one of each; MpSpec runs them all.
Producers == {"prod", "prod2"}

Consumers == {"cons", "cons2"}

Threads == Producers \cup Consumers

Mutexes == {"left", "right"}

\* The payload of the message that carries the memfd; the payloads of the
\* later descriptors are the counter values 1, 2, ...
NEGOTIATION_MESSAGE == 0
MaxFds == 4
DEAD == 57005
MaxPending == 2
MaxOffset == 1
MaxStores == 2

\* The processes that call a handshake.
Procs == {"a", "b", "c"}

\* A process that has not called a handshake, or has dropped its result.
NoHandshake ==
    [pc |-> "none", variant |-> "none", owner |-> FALSE, counter |-> 0,
     peer |-> "none", queue_size |-> 0, recv_fd_queue |-> <<>>,
     fd_sent |-> <<>>, fd_got |-> <<>>, last |-> "none", conn |-> "none"]

\* A message of the stream: the payload, and the descriptor in its
\* SCM_RIGHTS control message.
Msg(tag, fd) == [payload |-> tag, fd |-> fd]

\* The two processes of a queue with the eventfd back-end.
EvProcs == {"owner", "peer"}

\* A process that is not inside EventFdControl::wait.
NoWait == [pc |-> "idle", side |-> "left", expected |-> 0, out |-> "none"]

\* Side::other
Other(side) == IF side = "left" THEN "right" ELSE "left"

\* The offsets of the 2 * queue_size bytes reserved at `big`.
Virt == 0 .. (2 * QueueSize - 1)

\* What is behind a byte of the address space: nothing, anonymous memory,
\* or (a natural number) the byte of the file at that offset.
Unmapped == -2

Anonymous == -1

\* cached_other_offset holds u32::MAX: no offset is cached.  The model
\* writes the sentinel as a value below every offset.
Unknown == -1

\* The state of the ring engine before a Control is constructed.
NoEngine ==
    [Q |-> 0, cache |-> [m \in Mutexes |-> 0], ring |-> <<>>,
     p |-> [pc |-> "idle", R |-> 0, W |-> 0, L |-> 0, n |-> 0],
     c |-> [pc |-> "idle", L |-> 0, R |-> 0],
     sends |-> 0, attach |-> 0, committed |-> 0, sent |-> <<>>,
     recvd |-> <<>>, corrupt |-> FALSE]

\* The backing objects: the named file, and the memfd each owner of a
\* socket creates.
Files == {"named"} \cup Procs

\* ------------------------------------------------------------ arithmetic

WrappingAdd(a, b) == (a + b) % UsizeMod

WrappingSub(a, b) == (a - b + UsizeMod) % UsizeMod

SaturatingSub(a, b) == IF a > b THEN a - b ELSE 0

\* ---------------------------------------------------------------- bytes

\* The two mappings alias the same file bytes.
Phys(v) == v % QueueSize

InMapping(at, len) == at >= 0 /\ at + len <= 2 * QueueSize

\* The virtual offset v is inside the double mapping.
InRing(v) == v >= 0 /\ v < 2 * QueueSize

VirtRange(at, len) == at .. (at + len - 1)

\* The ring bytes under the virtual range [at, at + len).
PhysCells(at, len) == {Phys(v) : v \in {w \in VirtRange(at, len) : InRing(w)}}

\* What a read outside the mapping may return for a byte.
Stray == {0, 255}

\* ptr::copy_nonoverlapping(bytes, base + at, Len(bytes)), ascending; the
\* bytes that fall outside the mapping do not reach the ring.
CopyTo(r, at, bytes) ==
    [i \in 0 .. (QueueSize - 1) |->
        LET ks == {k \in 1 .. Len(bytes) :
                      InRing(at + k - 1) /\ Phys(at + k - 1) = i}
        IN  IF ks = {} THEN r[i]
            ELSE bytes[CHOOSE k \in ks : \A j \in ks : j <= k]]

\* The bytes at base + at .. base + at + len; a byte outside the mapping
\* reads as `stray`.
Slice(r, at, len, stray) ==
    [k \in 1 .. len |->
        IF InRing(at + k - 1) THEN r[Phys(at + k - 1)] ELSE stray]

Repeat(b, n) == [k \in 1 .. n |-> b]

\* (n as u64).to_le_bytes()
ToLeBytes(n) ==
    [k \in 1 .. PrefixSize |->
        IF k = 1 THEN n % 256
        ELSE IF k = 2 THEN (n \div 256) % 256
        ELSE IF k = 3 THEN (n \div 65536) % 256
        ELSE 0]

\* u64::from_le_bytes(buf) as usize; a value with a non-zero byte above the
\* second is larger than any offset of the model and is reported as UsizeMod.
FromLeBytes(b) ==
    IF \E k \in 3 .. PrefixSize : b[k] # 0
    THEN UsizeMod
    ELSE b[1] + 256 * b[2]

\* ---------------------------------------------------------------- state

VARIABLES
    ring,           \* the Q bytes of the file region [P, P+Q)
    left,           \* header.left
    right,          \* header.right
    lock,           \* header.left_lock, header.right_lock
    pc,             \* program position of each thread
    mtx,            \* the mutex a thread's lock()/wait()/drop acts on
    ret,            \* where the thread continues after the mutex operation
    a_left,         \* alloc_for_write: local `left`
    a_right,        \* alloc_for_write: local `right` (the returned pointer)
    a_size,         \* alloc_for_write: argument `size`
    a_reason,       \* alloc_for_write: argument `reason`
    len_ptr,        \* write: len_ptr, as an offset from the ring base
    total_written,  \* MemeWriter.total_written
    buf,            \* MemeWriter::write: argument `buf`
    res,            \* result of the callback of write / read
    writes,         \* MemeWriter::write calls made by the running callback
    sends,          \* write() calls started
    r_left,         \* read: local `left`
    r_right,        \* read: local `right`
    r_size,         \* read: local `size`
    payload,        \* bytes the running send callback handed to the writer
    sent,           \* log: one record per committed send
    recvd,          \* log: the slices passed to the read callbacks
    owner,          \* log: the send that last wrote each ring byte (0: none)
    guards,         \* log: the threads that hold a live guard of each mutex
    half_lock,      \* ShmemFutexControl: Header.left.lock, Header.right.lock
    half_guards,    \* log: the threads that hold a live ShmemFutexGuard
    hs,             \* per process: where its handshake is, and its result
    flock,          \* the advisory lock each process holds on the named file
    uds_path,       \* the process whose listener is bound at the socket path
    stream,         \* per owner: the messages sent on its stream, unread
    file_len,       \* length of the named file and of each owner's memfd
    event,          \* EventFdControl: the counters of left_event, right_event
    waiters,        \* Header.left_waiters, Header.right_waiters
    half_offset,    \* Header.left.offset, Header.right.offset
    ev,             \* per process: where its call of wait is, and its result
    store_buf,      \* per process: its store to an offset, not yet visible
    mm,             \* QueueMmaps::from_fd: where it is, and the address space
    eng,            \* the ring engine over a Control: caches, positions, logs
    fault           \* an access left the double mapping

header == <<left, right, lock>>

plocals ==
    <<a_left, a_right, a_size, a_reason, len_ptr, total_written, buf,
      writes, sends, payload>>

clocals == <<r_left, r_right, r_size>>

logs == <<sent, recvd, owner, guards>>

\* The lock words of ShmemFutexControl (src/src/control/shmem_futex.rs).
futex_ctl == <<half_lock, half_guards>>

\* The state of the handshakes (src/src/handshake/).
handshake == <<hs, flock, uds_path, stream, file_len>>

\* The state of EventFdControl (src/src/control/eventfd.rs).
event_ctl == <<event, waiters, half_offset, ev, store_buf>>

\* Everything outside the ring buffer engine of src/src/lib.rs.
ctl == <<futex_ctl, handshake, event_ctl, mm, eng>>

vars ==
    <<ring, left, right, lock, pc, mtx, ret, a_left, a_right, a_size,
      a_reason, len_ptr, total_written, buf, res, writes, sends, r_left,
      r_right, r_size, payload, sent, recvd, owner, guards, fault,
      half_lock, half_guards, hs, flock, uds_path, stream, file_len,
      event, waiters, half_offset, ev, store_buf, mm, eng>>

\* MemeQueue::from_path on an empty file: the file is extended with zero
\* bytes, the header is zero-filled.
Init ==
    /\ ring = [i \in 0 .. (QueueSize - 1) |-> 0]
    /\ left = 0
    /\ right = 0
    /\ lock = [m \in Mutexes |-> 0]
    /\ pc = [t \in Threads |-> "idle"]
    /\ mtx = [t \in Threads |-> "left"]
    /\ ret = [t \in Threads |-> "idle"]
    /\ a_left = 0
    /\ a_right = 0
    /\ a_size = 0
    /\ a_reason = "size"
    /\ len_ptr = 0
    /\ total_written = 0
    /\ buf = <<>>
    /\ res = [t \in Threads |-> "none"]
    /\ writes = 0
    /\ sends = 0
    /\ r_left = 0
    /\ r_right = 0
    /\ r_size = 0
    /\ payload = <<>>
    /\ sent = <<>>
    /\ recvd = <<>>
    /\ owner = [i \in 0 .. (QueueSize - 1) |-> 0]
    /\ guards = [m \in Mutexes |-> {}]
    /\ fault = FALSE
    /\ half_lock = [m \in Mutexes |-> 0]
    /\ half_guards = [m \in Mutexes |-> {}]
    /\ hs = [p \in Procs |-> NoHandshake]
    /\ flock = [p \in Procs |-> "none"]
    /\ uds_path = "free"
    /\ file_len = [f \in Files |-> 0]
    /\ stream = [p \in Procs |-> <<>>]
    /\ event = [m \in Mutexes |-> 0]
    /\ waiters = [m \in Mutexes |-> 0]
    /\ half_offset = [m \in Mutexes |-> 0]
    /\ ev = [t \in EvProcs |-> NoWait]
    /\ store_buf = [t \in EvProcs |-> <<>>]
    /\ mm = [pc |-> "start", vm |-> [v \in Virt |-> Unmapped], stores |-> 0,
             last |-> 0]
    /\ eng = NoEngine

Goto(t, p) == pc' = [pc EXCEPT ![t] = p]

\* Call a mutex operation `op` on mutex m, continuing at `after`.
Call(t, op, m, after) ==
    /\ pc' = [pc EXCEPT ![t] = op]
    /\ mtx' = [mtx EXCEPT ![t] = m]
    /\ ret' = [ret EXCEPT ![t] = after]

\* ------------------------------------------------- src/src/shmem_mutex.rs

\* A compare_exchange that takes the word whatever it holds.
CasAlways(word) == TRUE

\* compare_exchange(0, 1, Acquire, Relaxed).is_ok()
CasSucceeds(word) == word = 0

\* ShmemRawMutex::lock: compare_exchange(0, 1); on success the guard is
\* returned, on failure futex_wait.
MutexLock(t) ==
    /\ ~fault
    /\ UNCHANGED ctl
    /\ pc[t] = "lock"
    /\ IF CasSucceeds(lock[mtx[t]])
       THEN /\ lock' = [lock EXCEPT ![mtx[t]] = 1]
            /\ guards' = [guards EXCEPT ![mtx[t]] = @ \cup {t}]
            /\ Goto(t, ret[t])
       ELSE /\ Goto(t, "lock_fx")
            /\ UNCHANGED <<lock, guards>>
    /\ UNCHANGED <<ring, left, right, mtx, ret, plocals, clocals, res, sent,
                   recvd, owner, fault>>

\* ShmemRawMutex::wait: return once the word reads 0, else futex_wait.
MutexWait(t) ==
    /\ ~fault
    /\ UNCHANGED ctl
    /\ pc[t] = "wait"
    /\ Goto(t, IF lock[mtx[t]] = 0 THEN ret[t] ELSE "wait_fx")
    /\ UNCHANGED <<ring, header, mtx, ret, plocals, clocals, res, logs,
                   fault>>

\* Where a thread is while it sleeps in futex_wait, and where it goes on.
Parked(p) == IF p = "lock_fx" THEN "lock_pk" ELSE "wait_pk"

Resumed(p) ==
    IF p \in {"lock_fx", "lock_pk"} THEN "lock" ELSE "wait"

\* futex_wait(futex, 1): sleep if the word still reads 1, else return; both
\* callers loop.
FutexWait(t) ==
    /\ ~fault
    /\ UNCHANGED ctl
    /\ pc[t] \in {"lock_fx", "wait_fx"}
    /\ Goto(t, IF lock[mtx[t]] = 1 THEN Parked(pc[t]) ELSE Resumed(pc[t]))
    /\ UNCHANGED <<ring, header, mtx, ret, plocals, clocals, res, logs,
                   fault>>

\* Drop for ShmemRawMutexGuard, first half: futex.store(0).
GuardStore(t) ==
    /\ ~fault
    /\ UNCHANGED ctl
    /\ pc[t] = "drop"
    /\ lock' = [lock EXCEPT ![mtx[t]] = 0]
    /\ guards' = [guards EXCEPT ![mtx[t]] = @ \ {t}]
    /\ Goto(t, "wake")
    /\ UNCHANGED <<ring, left, right, mtx, ret, plocals, clocals, res, sent,
                   recvd, owner, fault>>

\* Drop for ShmemRawMutexGuard, second half: futex_wake(futex, u32::MAX).
GuardWake(t) ==
    /\ ~fault
    /\ UNCHANGED ctl
    /\ pc[t] = "wake"
    /\ pc' = [u \in Threads |->
                IF u = t THEN ret[t]
                ELSE IF pc[u] \in {"lock_pk", "wait_pk"} /\ mtx[u] = mtx[t]
                     THEN Resumed(pc[u])
                     ELSE pc[u]]
    /\ UNCHANGED <<ring, header, mtx, ret, plocals, clocals, res, logs,
                   fault>>

\* ------------------------------------------ src/src/lib.rs: the producer

\* The producers that have called write and wait for the right lock.
Entering ==
    {q \in Producers :
        pc[q] \in {"lock", "lock_fx", "lock_pk", "begin"} /\ ret[q] = "begin"}

\* MemeQueue::write, entry: right_lock.lock().
WriteStartUpTo(p, limit) ==
    /\ ~fault
    /\ UNCHANGED ctl
    /\ pc[p] = "idle"
    /\ sends + Cardinality(Entering) < limit
    /\ res' = [res EXCEPT ![p] = "none"]
    /\ Call(p, "lock", "right", "begin")
    /\ UNCHANGED <<ring, header, plocals, clocals, logs, fault>>

WriteStart(p) == WriteStartUpTo(p, MaxSends)

\* MemeQueue::write with the right guard: alloc_for_write(8, "size").
WriteBegin(p) ==
    /\ ~fault
    /\ UNCHANGED ctl
    /\ pc[p] = "begin"
    /\ sends' = sends + 1
    /\ a_size' = PrefixSize
    /\ a_reason' = "size"
    /\ buf' = <<>>
    /\ Goto(p, "alloc")
    /\ UNCHANGED <<ring, header, mtx, ret, a_left, a_right, len_ptr,
                   total_written, writes, payload, clocals, res, logs, fault>>

\* alloc_for_write, loop head: load header.left and test `left > self.size`;
\* the rewind takes the left lock.
AllocLoadLeft(p) ==
    /\ ~fault
    /\ UNCHANGED ctl
    /\ pc[p] = "alloc"
    /\ a_left' = left
    /\ IF left > QueueSize
       THEN Call(p, "lock", "left", "sub_left")
       ELSE Goto(p, "load_right") /\ UNCHANGED <<mtx, ret>>
    /\ UNCHANGED <<ring, header, a_right, a_size, a_reason, len_ptr,
                   total_written, buf, writes, sends, payload, clocals, res,
                   logs, fault>>

\* header.left.fetch_sub(self.size)
RewindSubLeft(p) ==
    /\ ~fault
    /\ UNCHANGED ctl
    /\ pc[p] = "sub_left"
    /\ left' = WrappingSub(left, QueueSize)
    /\ Goto(p, "sub_right")
    /\ UNCHANGED <<ring, right, lock, mtx, ret, plocals, clocals, res, logs,
                   fault>>

\* header.right.fetch_sub(self.size); the left guard is dropped at the end
\* of the block.
RewindSubRight(p) ==
    /\ ~fault
    /\ UNCHANGED ctl
    /\ pc[p] = "sub_right"
    /\ right' = WrappingSub(right, QueueSize)
    /\ Call(p, "drop", "left", "load_right")
    /\ UNCHANGED <<ring, left, lock, plocals, clocals, res, logs, fault>>

\* The free space of a buffer that is not circular.
SpaceToRingEnd(l, r) == SaturatingSub(QueueSize, r)

\* let window_end = left + self.size;
\* let space_available = window_end.saturating_sub(right);
SpaceAvailable(l, r) == SaturatingSub(l + QueueSize, r)

\* alloc_for_write: load header.right, return the pointer if the space
\* suffices, else left_lock.wait() and loop.
AllocLoadRight(p) ==
    /\ ~fault
    /\ UNCHANGED ctl
    /\ pc[p] = "load_right"
    /\ a_right' = right
    /\ IF SpaceAvailable(a_left, right) >= a_size
       THEN /\ Goto(p, IF a_reason = "size" THEN "zero" ELSE "copy")
            /\ a_left' = 0
            /\ UNCHANGED <<mtx, ret>>
       ELSE /\ Call(p, "wait", "left", "alloc")
            /\ UNCHANGED a_left
    /\ UNCHANGED <<ring, header, a_size, a_reason, len_ptr, total_written,
                   buf, writes, sends, payload, clocals, res, logs, fault>>

Stamp(o, at, len, id) ==
    [i \in 0 .. (QueueSize - 1) |->
        IF i \in PhysCells(at, len) THEN id ELSE o[i]]

\* MemeQueue::write: copy [0; 8] to len_ptr and build the writer with
\* total_written = 8.
WriteZero(p) ==
    /\ ~fault
    /\ UNCHANGED ctl
    /\ pc[p] = "zero"
    /\ \/ /\ ring' = CopyTo(ring, a_right, Repeat(0, PrefixSize))
          /\ owner' = Stamp(owner, a_right, PrefixSize, sends)
          /\ len_ptr' = a_right
          /\ total_written' = PrefixSize
          /\ a_right' = 0
          /\ Goto(p, "cb")
          /\ UNCHANGED fault
       \/ /\ ~InMapping(a_right, PrefixSize)
          /\ fault' = TRUE
          /\ UNCHANGED <<ring, owner, len_ptr, total_written, a_right, pc>>
    /\ UNCHANGED <<header, mtx, ret, a_left, a_size, a_reason, buf, writes,
                   payload, sends, clocals, res, sent, recvd,
                   guards>>

\* A length test that also turns away the message that fills the ring.
TooLongAtMax(n, tw) == n + tw >= QueueSize

\* if buf.len() > self.total_written + self.queue.size { return Err(..) }
TooLong(n, tw) == n > tw + QueueSize

\* The byte the k-th send fills its buffers with (tests::known_bad sends
\* vec![k; n]).
PayloadByte(k) == k % 256

\* The callback calls writer.write(buf).  On Err ("message is longer than
\* the queue") the callback returns the error, as write_all does; otherwise
\* the writer calls alloc_for_write(buf.len()).  A rejected buf stays in
\* `buf` until the next send starts.
CallbackWrite(p) ==
    /\ ~fault
    /\ UNCHANGED ctl
    /\ pc[p] = "cb"
    /\ writes < MaxWrites
    /\ \E n \in BufLens :
          /\ writes' = writes + 1
          /\ buf' = Repeat(PayloadByte(sends), n)
          /\ IF TooLong(n, total_written)
             THEN /\ res' = [res EXCEPT ![p] = "too_long"]
                  /\ Goto(p, "prefix")
                  /\ UNCHANGED <<a_size, a_reason>>
             ELSE /\ a_size' = n
                  /\ a_reason' = "data"
                  /\ Goto(p, "alloc")
                  /\ UNCHANGED res
    /\ UNCHANGED <<ring, header, mtx, ret, a_left, a_right, len_ptr,
                   total_written, sends, payload, clocals, logs, fault>>

\* The callback returns, with success or with a failure of its own.
CallbackReturn(p) ==
    /\ ~fault
    /\ UNCHANGED ctl
    /\ pc[p] = "cb"
    /\ \E r \in {"ok", "err"} : res' = [res EXCEPT ![p] = r]
    /\ Goto(p, "prefix")
    /\ UNCHANGED <<ring, header, mtx, ret, plocals, clocals, logs, fault>>

\* MemeWriter::write: copy buf to alloc_for_write(..).add(total_written),
\* total_written += buf.len().
WriterCopy(p) ==
    /\ ~fault
    /\ UNCHANGED ctl
    /\ pc[p] = "copy"
    /\ \/ /\ ring' = CopyTo(ring, a_right + total_written, buf)
          /\ owner' = Stamp(owner, a_right + total_written, Len(buf), sends)
          /\ total_written' = total_written + Len(buf)
          /\ payload' = payload \o buf
          /\ buf' = <<>>
          /\ a_right' = 0
          /\ Goto(p, "cb")
          /\ UNCHANGED fault
       \/ /\ ~InMapping(a_right + total_written, Len(buf))
          /\ fault' = TRUE
          /\ UNCHANGED <<ring, owner, total_written, payload, buf, a_right,
                         pc>>
    /\ UNCHANGED <<header, mtx, ret, a_left, a_size, a_reason, len_ptr,
                   writes, sends, clocals, res, sent, recvd,
                   guards>>

\* let written = writer.total_written - 8; copy written.to_le_bytes() to
\* len_ptr.
WritePrefix(p) ==
    /\ ~fault
    /\ UNCHANGED ctl
    /\ pc[p] = "prefix"
    /\ \/ /\ ring' = CopyTo(ring, len_ptr,
                           ToLeBytes(total_written - PrefixSize))
          /\ owner' = Stamp(owner, len_ptr, PrefixSize, sends)
          /\ Goto(p, "commit")
          /\ UNCHANGED fault
       \/ /\ ~InMapping(len_ptr, PrefixSize)
          /\ fault' = TRUE
          /\ UNCHANGED <<ring, owner, pc>>
    /\ UNCHANGED <<header, mtx, ret, plocals, clocals, res, sent, recvd,
                   guards>>

\* A commit that counts the payload and not the prefix.
CommitRightPayloadOnly(r, tw, result) == WrappingAdd(r, tw - PrefixSize)

\* header.right.fetch_add(writer.total_written)
CommitRight(r, tw, result) == WrappingAdd(r, tw)

\* The commit; the right guard is dropped when write returns.
WriteCommit(p) ==
    /\ ~fault
    /\ UNCHANGED ctl
    /\ pc[p] = "commit"
    /\ right' = CommitRight(right, total_written, res[p])
    /\ sent' = Append(sent, [id |-> sends, data |-> payload,
                             ok |-> res[p] = "ok", at |-> len_ptr])
    /\ len_ptr' = 0
    /\ total_written' = 0
    /\ writes' = 0
    /\ payload' = <<>>
    /\ Call(p, "drop", "right", "idle")
    /\ UNCHANGED <<ring, left, lock, a_left, a_right, a_size, a_reason, buf,
                   sends, clocals, res, recvd, owner, guards,
                   fault>>

\* ------------------------------------------ src/src/lib.rs: the consumer

\* MemeQueue::read, entry: left_lock.lock().
ReadStart(c) ==
    /\ ~fault
    /\ UNCHANGED ctl
    /\ pc[c] = "idle"
    /\ res' = [res EXCEPT ![c] = "none"]
    /\ Call(c, "lock", "left", "rload_left")
    /\ UNCHANGED <<ring, header, plocals, clocals, logs, fault>>

\* let left = header.left.load(Relaxed);
ReadLoadLeft(c) ==
    /\ ~fault
    /\ UNCHANGED ctl
    /\ pc[c] = "rload_left"
    /\ r_left' = left
    /\ Goto(c, "rload_right")
    /\ UNCHANGED <<ring, header, mtx, ret, plocals, r_right, r_size, res,
                   logs, fault>>

\* let right = header.right.load(Relaxed); if right.saturating_sub(left) > 0
\* read a message, else right_lock.wait() and loop.
ReadLoadRight(c) ==
    /\ ~fault
    /\ UNCHANGED ctl
    /\ pc[c] = "rload_right"
    /\ r_right' = right
    /\ IF SaturatingSub(right, r_left) > 0
       THEN Goto(c, "rprefix") /\ UNCHANGED <<mtx, ret>>
       ELSE Call(c, "wait", "right", "rload_left")
    /\ UNCHANGED <<ring, header, plocals, r_left, r_size, res, logs, fault>>

\* Copy the 8 prefix bytes at `left` and decode them; build the slice
\* from_raw_parts(base + left + 8, size).
ReadPrefix(c) ==
    /\ ~fault
    /\ UNCHANGED ctl
    /\ pc[c] = "rprefix"
    /\ \/ /\ \E stray \in Stray :
                r_size' = FromLeBytes(Slice(ring, r_left, PrefixSize, stray))
          /\ Goto(c, "rstore")
          /\ UNCHANGED fault
       \/ /\ ~InMapping(r_left, PrefixSize)
          /\ fault' = TRUE
          /\ UNCHANGED <<r_size, pc>>
    /\ UNCHANGED <<ring, header, mtx, ret, plocals, r_left, r_right, res,
                   logs>>

\* A read that consumes the prefix alone and leaves the payload in place.
NewLeftNoPayload(l, size) == WrappingAdd(l, PrefixSize)

\* left + 8 + size, the value read() stores to header.left.
NewLeft(l, size) == WrappingAdd(l, PrefixSize + size)

\* header.left.store(left + 8 + size, Relaxed);
ReadStore(c) ==
    /\ ~fault
    /\ UNCHANGED ctl
    /\ pc[c] = "rstore"
    /\ left' = NewLeft(r_left, r_size)
    /\ Goto(c, "rcb")
    /\ UNCHANGED <<ring, right, lock, mtx, ret, plocals, clocals, res, logs,
                   fault>>

\* The log keeps a slice up to LogCap bytes, more than any payload the
\* callbacks of the model write.
LogCap == MaxWrites * (QueueSize + PrefixSize + 1) + 1

Logged(n) == IF n < LogCap THEN n ELSE LogCap

\* return f(data): the callback reads the slice and succeeds or fails; the
\* left guard is dropped when read returns.
ReadCallback(c) ==
    /\ ~fault
    /\ UNCHANGED ctl
    /\ pc[c] = "rcb"
    /\ \/ /\ \E stray \in Stray :
                recvd' = Append(recvd, Slice(ring, r_left + PrefixSize,
                                             Logged(r_size), stray))
          /\ \E r \in {"ok", "err"} : res' = [res EXCEPT ![c] = r]
          /\ r_left' = 0
          /\ r_right' = 0
          /\ r_size' = 0
          /\ Call(c, "drop", "left", "idle")
          /\ UNCHANGED fault
       \/ /\ ~InMapping(r_left + PrefixSize, r_size)
          /\ fault' = TRUE
          /\ UNCHANGED <<recvd, res, clocals, pc, mtx, ret>>
    /\ UNCHANGED <<ring, header, plocals, sent, owner, guards>>

\* ------------------------------------------------------- the two threads

ProducerStep ==
    \/ WriteStart("prod")
    \/ WriteBegin("prod")
    \/ AllocLoadLeft("prod")
    \/ RewindSubLeft("prod")
    \/ RewindSubRight("prod")
    \/ AllocLoadRight("prod")
    \/ WriteZero("prod")
    \/ CallbackWrite("prod")
    \/ CallbackReturn("prod")
    \/ WriterCopy("prod")
    \/ WritePrefix("prod")
    \/ WriteCommit("prod")
    \/ MutexLock("prod")
    \/ MutexWait("prod")
    \/ FutexWait("prod")
    \/ GuardStore("prod")
    \/ GuardWake("prod")

ConsumerStep ==
    \/ ReadStart("cons")
    \/ ReadLoadLeft("cons")
    \/ ReadLoadRight("cons")
    \/ ReadPrefix("cons")
    \/ ReadStore("cons")
    \/ ReadCallback("cons")
    \/ MutexLock("cons")
    \/ MutexWait("cons")
    \/ FutexWait("cons")
    \/ GuardStore("cons")
    \/ GuardWake("cons")

Next ==
    \/ WriteStart("prod")
    \/ WriteBegin("prod")
    \/ AllocLoadLeft("prod")
    \/ RewindSubLeft("prod")
    \/ RewindSubRight("prod")
    \/ AllocLoadRight("prod")
    \/ WriteZero("prod")
    \/ CallbackWrite("prod")
    \/ CallbackReturn("prod")
    \/ WriterCopy("prod")
    \/ WritePrefix("prod")
    \/ WriteCommit("prod")
    \/ ReadStart("cons")
    \/ ReadLoadLeft("cons")
    \/ ReadLoadRight("cons")
    \/ ReadPrefix("cons")
    \/ ReadStore("cons")
    \/ ReadCallback("cons")
    \/ \E t \in Threads : MutexLock(t)
    \/ \E t \in Threads : MutexWait(t)
    \/ \E t \in Threads : FutexWait(t)
    \/ \E t \in Threads : GuardStore(t)
    \/ \E t \in Threads : GuardWake(t)

Spec == Init /\ [][Next]_vars

\* Both threads keep being scheduled.
FairSpec == Spec /\ WF_vars(ProducerStep) /\ WF_vars(ConsumerStep)

\* --------------------------------- several threads on each side of a queue

\* Every producer thread calls write and every consumer thread calls read on
\* the same MemeQueue.  The locals of write and read are kept once: they
\* belong to the thread that holds the side's guard.
MpNext ==
    \/ \E p \in Producers : WriteStart(p)
    \/ \E p \in Producers : WriteBegin(p)
    \/ \E p \in Producers : AllocLoadLeft(p)
    \/ \E p \in Producers : RewindSubLeft(p)
    \/ \E p \in Producers : RewindSubRight(p)
    \/ \E p \in Producers : AllocLoadRight(p)
    \/ \E p \in Producers : WriteZero(p)
    \/ \E p \in Producers : CallbackWrite(p)
    \/ \E p \in Producers : CallbackReturn(p)
    \/ \E p \in Producers : WriterCopy(p)
    \/ \E p \in Producers : WritePrefix(p)
    \/ \E p \in Producers : WriteCommit(p)
    \/ \E c \in Consumers : ReadStart(c)
    \/ \E c \in Consumers : ReadLoadLeft(c)
    \/ \E c \in Consumers : ReadLoadRight(c)
    \/ \E c \in Consumers : ReadPrefix(c)
    \/ \E c \in Consumers : ReadStore(c)
    \/ \E c \in Consumers : ReadCallback(c)
    \/ \E t \in Threads : MutexLock(t)
    \/ \E t \in Threads : MutexWait(t)
    \/ \E t \in Threads : FutexWait(t)
    \/ \E t \in Threads : GuardStore(t)
    \/ \E t \in Threads : GuardWake(t)

MpSpec == Init /\ [][MpNext]_vars

\* ------------------------------------- tests::simple: one thread, a model

\* The bytes the reference VecDeque `to_read` holds from entry i on, each
\* entry counted with its prefix.
RECURSIVE RefBytes(_)
RefBytes(i) ==
    IF i > Len(sent) THEN 0
    ELSE Len(sent[i].data) + PrefixSize + RefBytes(i + 1)

\* available_space of tests::simple.
AvailableSpace == QueueSize - RefBytes(Len(recvd) + 1)

\* What the single thread of tests::simple does: one call at a time, a
\* Write only if buf.len() + 8 <= available_space, a Read only if to_read is
\* not empty, callbacks that succeed (write_all, to_owned): write_all
\* calls the writer once, and not at all for an empty buffer.  The buffer of
\* a Write is drawn when the callback runs, so a Write starts only if the
\* empty buffer fits and then draws a buffer that fits.
SeqAllowed ==
    /\ writes' <= 1
    /\ (pc["prod"] = "idle" /\ pc'["prod"] # "idle")
          => (pc["cons"] = "idle" /\ PrefixSize <= AvailableSpace)
    /\ (pc["cons"] = "idle" /\ pc'["cons"] # "idle")
          => (pc["prod"] = "idle" /\ Len(recvd) < Len(sent))
    /\ writes' > writes => Len(buf') + PrefixSize <= AvailableSpace
    /\ res'["prod"] \in {"none", "ok"}
    /\ res'["cons"] \in {"none", "ok"}

SeqNext == (WriteStartUpTo("prod", MaxSeqSends) \/ Next) /\ SeqAllowed

SeqSpec == Init /\ [][SeqNext]_vars

\* ---------------------- the intended use: an SPSC pair, messages that fit

\* One producer thread and one consumer thread in any interleaving, every
\* callback writes at most one buffer of at most Q - 8 bytes and succeeds
\* (write_all of a message that fits, to_owned).
FitAllowed ==
    /\ writes' <= 1
    /\ writes' > writes => Len(buf') + PrefixSize <= QueueSize
    /\ res'["prod"] \in {"none", "ok"}
    /\ res'["cons"] \in {"none", "ok"}

FitNext == (WriteStartUpTo("prod", MaxFitSends) \/ Next) /\ FitAllowed

FitSpec == Init /\ [][FitNext]_vars

\* ------------------------------------ a batch of sends, then the recvs

\* One thread calls write some times on the fresh queue and only then
\* read: no write starts once a read has been called, no read starts while
\* a write runs.
BatchAllowed ==
    /\ (pc["prod"] = "idle" /\ pc'["prod"] # "idle")
          => (pc["cons"] = "idle" /\ recvd = <<>> /\ left = 0)
    /\ (pc["cons"] = "idle" /\ pc'["cons"] # "idle")
          => (pc["prod"] = "idle" /\ Len(recvd) < Len(sent))

BatchNext == Next /\ BatchAllowed

BatchSpec == Init /\ [][BatchNext]_vars

\* ---------------------------------------- src/src/control/shmem_futex.rs

\* What the engine other than the program counters and the lock words is.
queue == <<ring, left, right, plocals, clocals, res, sent, recvd, owner,
           fault>>

\* A swap that reports the word as free whatever it held.
SwapAlwaysFree(old) == TRUE

\* `futex.swap(2, Acquire) != 0` is false: the word was free and is taken.
SwapAcquired(old) == old = 0

\* ShmemFutexControl::lock, fast path: compare_exchange(0, 1).
HalfLockCas(t) ==
    /\ pc[t] = "x_cas"
    /\ IF half_lock[mtx[t]] = 0
       THEN /\ half_lock' = [half_lock EXCEPT ![mtx[t]] = 1]
            /\ half_guards' = [half_guards EXCEPT ![mtx[t]] = @ \cup {t}]
            /\ Goto(t, ret[t])
       ELSE /\ Goto(t, "x_swap")
            /\ UNCHANGED futex_ctl
    /\ UNCHANGED <<queue, lock, guards, mtx, ret, handshake, event_ctl, mm,
                   eng>>

\* ShmemFutexControl::lock, slow path: the condition of
\* `while futex.swap(2) != 0`.
HalfLockSwap(t) ==
    /\ pc[t] = "x_swap"
    /\ half_lock' = [half_lock EXCEPT ![mtx[t]] = 2]
    /\ IF SwapAcquired(half_lock[mtx[t]])
       THEN /\ half_guards' = [half_guards EXCEPT ![mtx[t]] = @ \cup {t}]
            /\ Goto(t, ret[t])
       ELSE /\ Goto(t, "x_fx")
            /\ UNCHANGED half_guards
    /\ UNCHANGED <<queue, lock, guards, mtx, ret, handshake, event_ctl, mm,
                   eng>>

\* The body of that loop, futex_wait(futex, 2): sleep if the word still
\* reads 2, else return to the swap.
HalfFutexWait(t) ==
    /\ pc[t] = "x_fx"
    /\ Goto(t, IF half_lock[mtx[t]] = 2 THEN "x_pk" ELSE "x_swap")
    /\ UNCHANGED <<queue, lock, guards, mtx, ret, ctl>>

\* The futex syscall returns without a wake (a signal): its result is not
\* looked at, the loop swaps again.
HalfFutexInterrupted(t) ==
    /\ pc[t] = "x_pk"
    /\ Goto(t, "x_swap")
    /\ UNCHANGED <<queue, lock, guards, mtx, ret, ctl>>

\* The drop never wakes.
NeverHadWaiters(old) == FALSE

\* The condition of the drop, `self.futex.swap(0, Release) == 2`: the word
\* said that some thread may be asleep on it.
HadWaiters(old) == old = 2

\* Drop for ShmemFutexGuard, first half: futex.swap(0, Release) == 2.
HalfGuardSwap(t) ==
    /\ pc[t] = "x_drop"
    /\ half_lock' = [half_lock EXCEPT ![mtx[t]] = 0]
    /\ half_guards' = [half_guards EXCEPT ![mtx[t]] = @ \ {t}]
    /\ Goto(t, IF HadWaiters(half_lock[mtx[t]]) THEN "x_wake" ELSE ret[t])
    /\ UNCHANGED <<queue, lock, guards, mtx, ret, handshake, event_ctl, mm,
                   eng>>

\* Drop for ShmemFutexGuard, second half: futex_wake(futex, 1) wakes one
\* of the threads asleep on the word, if there is one.
HalfGuardWake(t) ==
    /\ pc[t] = "x_wake"
    /\ \/ \E u \in Threads :
            /\ pc[u] = "x_pk"
            /\ mtx[u] = mtx[t]
            /\ pc' = [pc EXCEPT ![t] = ret[t], ![u] = "x_swap"]
       \/ /\ \A u \in Threads : ~(pc[u] = "x_pk" /\ mtx[u] = mtx[t])
          /\ Goto(t, ret[t])
    /\ UNCHANGED <<queue, lock, guards, mtx, ret, ctl>>

\* The threads that contend for the locks of a header.
Lockers == {"prod", "prod2", "cons"}

\* A thread takes the lock of a side: ShmemRawMutex::lock of the queue's
\* header, or ShmemFutexControl::lock of a control's header.
LockAcquire(t) ==
    /\ pc[t] = "idle"
    /\ \E m \in Mutexes :
          \/ Call(t, "lock", m, "held")
          \/ Call(t, "x_cas", m, "x_held")
    /\ UNCHANGED <<queue, lock, guards, ctl>>

\* The guard goes out of scope.
LockRelease(t) ==
    /\ \/ pc[t] = "held" /\ Call(t, "drop", mtx[t], "idle")
       \/ pc[t] = "x_held" /\ Call(t, "x_drop", mtx[t], "idle")
    /\ UNCHANGED <<queue, lock, guards, ctl>>

LockNext ==
    \/ \E t \in Lockers : LockAcquire(t)
    \/ \E t \in Lockers : LockRelease(t)
    \/ \E t \in Lockers : MutexLock(t)
    \/ \E t \in Lockers : FutexWait(t)
    \/ \E t \in Lockers : GuardStore(t)
    \/ \E t \in Lockers : GuardWake(t)
    \/ \E t \in Lockers : HalfLockCas(t)
    \/ \E t \in Lockers : HalfLockSwap(t)
    \/ \E t \in Lockers : HalfFutexWait(t)
    \/ \E t \in Lockers : HalfFutexInterrupted(t)
    \/ \E t \in Lockers : HalfGuardSwap(t)
    \/ \E t \in Lockers : HalfGuardWake(t)

LockSpec == Init /\ [][LockNext]_vars

\* The steps a running thread takes by itself: the lock's compare-exchange,
\* its swap, the entry of futex_wait, the two halves of the drop, and the
\* end of the guard's scope.  A sleeping thread runs only when it is woken:
\* a return of futex_wait without a wake is possible, never promised.
LockerRuns(t) ==
    \/ HalfLockCas(t)
    \/ HalfLockSwap(t)
    \/ HalfFutexWait(t)
    \/ HalfGuardSwap(t)
    \/ HalfGuardWake(t)
    \/ LockRelease(t)

\* The scheduler runs every runnable thread, and every holder lets go of
\* its guard.
FairLockSpec == LockSpec /\ \A t \in Lockers : WF_vars(LockerRuns(t))

\* ------------------------------------------------- src/src/handshake/

engine ==
    <<queue, lock, guards, pc, mtx, ret, futex_ctl, event_ctl, mm, eng>>

\* Two processes call the handshakes.
SizeProcs == {"a", "b"}

\* Descriptors a process sends once the queue is in use.
ExtraFds == {"x", "y"}

\* A process calls named_file(path, size) or uds_memfd(path, size).
\* queue_size = queue_size.next_multiple_of(page_size) is the first
\* statement of both.
HsStartWith(p, sizes) ==
    /\ hs[p].pc = "none"
    /\ \E v \in {"named_file", "uds_memfd"}, size \in sizes :
          hs' = [hs EXCEPT ![p] = [NoHandshake EXCEPT !.variant = v,
                    !.queue_size = NextMultipleOf(size, PAGE_SIZE),
                    !.pc = IF v = "named_file" THEN "nf_flock" ELSE "uds_bind"]]
    /\ UNCHANGED <<engine, file_len, flock, uds_path, stream>>

HsStart(p) == HsStartWith(p, {RequestedSize})

\* flock(2): an exclusive lock is granted if no other open file holds a
\* lock, a shared one if no other open file holds an exclusive lock.
ExGrantable(p) == \A q \in Procs \ {p} : flock[q] = "none"

\* A shared lock that is granted whatever the others hold.
ShAlways(p) == TRUE

ShGrantable(p) == \A q \in Procs \ {p} : flock[q] # "ex"

\* named_file: flock(LOCK_EX | LOCK_NB).  On success the caller is the
\* owner, sets the file's length and returns; on WouldBlock it is not.
NfTryLock(p) ==
    /\ hs[p].pc = "nf_flock"
    /\ IF ExGrantable(p)
       THEN /\ flock' = [flock EXCEPT ![p] = "ex"]
            /\ hs' = [hs EXCEPT ![p].owner = TRUE, ![p].pc = "new"]
            /\ file_len' = [file_len EXCEPT
                               !["named"] = PAGE_SIZE + hs[p].queue_size]
       ELSE /\ hs' = [hs EXCEPT ![p].owner = FALSE, ![p].pc = "nf_wait"]
            /\ UNCHANGED <<flock, file_len>>
    /\ UNCHANGED <<engine, uds_path, stream>>

\* checked_sub(page_size) is None: the expect panics.
SizeBelowPage(len) == len < PAGE_SIZE

\* What a process that is not the owner makes of the length of the backing
\* object: queue_size = len - page_size, a panic if len < page_size or if
\* queue_size is not a multiple of the page size.
PeerResult(h, len) ==
    IF SizeBelowPage(len) \/ (len - PAGE_SIZE) % PAGE_SIZE # 0
    THEN [h EXCEPT !.pc = "panic"]
    ELSE [h EXCEPT !.pc = "new", !.queue_size = len - PAGE_SIZE]

\* named_file, not the owner: the blocking flock(LOCK_SH), then the size
\* of the file, then the result.
NfWaitShared(p) ==
    /\ hs[p].pc = "nf_wait"
    /\ ShGrantable(p)
    /\ flock' = [flock EXCEPT ![p] = "sh"]
    /\ hs' = [hs EXCEPT ![p] = PeerResult(hs[p], file_len["named"])]
    /\ UNCHANGED <<engine, file_len, uds_path, stream>>

\* uds_memfd: UnixListener::bind.  The binder is the owner; on AddrInUse
\* the caller is not.
UdsBind(p) ==
    /\ hs[p].pc = "uds_bind"
    /\ IF uds_path = "free"
       THEN /\ uds_path' = p
            /\ hs' = [hs EXCEPT ![p].owner = TRUE, ![p].pc = "uds_accept"]
       ELSE /\ hs' = [hs EXCEPT ![p].owner = FALSE, ![p].pc = "uds_connect"]
            /\ UNCHANGED uds_path
    /\ UNCHANGED <<engine, file_len, flock, stream>>

\* The process q has connected to the listener of p and is not accepted.
Pending(q, p) ==
    /\ hs[q].peer = p
    /\ hs[q].pc \in {"uds_remove", "uds_recv"}
    /\ hs[q].conn = "pending"

\* The stream of p is accepted and open at both ends.
Connected(p) == hs[p].conn = "open"

\* The socket of p is closed: its result is gone and the other end of an
\* open stream reads end of file from now on.
CloseStream(p) ==
    [q \in Procs |->
        IF q = p THEN NoHandshake
        ELSE IF hs[p].conn = "open" /\ hs[p].peer = q /\ hs[q].peer = p
                                   /\ hs[q].conn = "open"
             THEN [hs[q] EXCEPT !.conn = "closed"]
             ELSE hs[q]]

\* uds_memfd, owner: listener.accept() takes one connection; the listener
\* is closed, the memfd is created and sized, the result returned.
UdsAccept(p) ==
    /\ hs[p].pc = "uds_accept"
    /\ \E q \in Procs \ {p} :
          /\ Pending(q, p)
          /\ hs' = [hs EXCEPT ![p].peer = q, ![p].pc = "new",
                              ![p].conn = "open", ![q].conn = "open"]
    /\ file_len' = [file_len EXCEPT ![p] = PAGE_SIZE + hs[p].queue_size]
    /\ UNCHANGED <<engine, flock, uds_path, stream>>

\* uds_memfd, not the owner: UnixStream::connect succeeds while a listener
\* is bound at the path and fails (the call returns Err) otherwise.
UdsConnect(p) ==
    /\ hs[p].pc = "uds_connect"
    /\ IF uds_path # "free" /\ hs[uds_path].pc = "uds_accept"
       THEN hs' = [hs EXCEPT ![p].peer = uds_path, ![p].pc = "uds_remove",
                             ![p].conn = "pending"]
       ELSE hs' = [hs EXCEPT ![p] = NoHandshake]
    /\ UNCHANGED <<engine, file_len, flock, uds_path, stream>>

\* fs::remove_file(&uds_path): unlinks what is at the path, Err if nothing.
UdsRemove(p) ==
    /\ hs[p].pc = "uds_remove"
    /\ IF uds_path = "free"
       THEN hs' = CloseStream(p)
       ELSE hs' = [hs EXCEPT ![p].pc = "uds_recv"]
    /\ uds_path' = "free"
    /\ UNCHANGED <<engine, file_len, flock, stream>>

\* uds_memfd, not the owner: one turn of the loop around recv_fd.  The
\* negotiation message ends the handshake, a descriptor tagged counter + 1
\* is queued, anything else is InvalidData, and so is the end of file of a
\* stream the owner has closed.
UdsRecv(p) ==
    /\ hs[p].pc = "uds_recv"
    /\ IF hs[p].conn = "closed"
       THEN /\ hs' = CloseStream(p)
            /\ UNCHANGED stream
       ELSE /\ Connected(p)
            /\ stream[hs[p].peer] # <<>>
            /\ LET msg == Head(stream[hs[p].peer])
               IN  hs' = IF msg.payload = NEGOTIATION_MESSAGE
                         THEN [hs EXCEPT ![p] =
                                  PeerResult(hs[p], file_len[hs[p].peer])]
                         ELSE IF msg.payload = hs[p].counter + 1
                         THEN [hs EXCEPT ![p].counter = msg.payload,
                                         ![p].recv_fd_queue =
                                             Append(@, msg.fd)]
                         ELSE CloseStream(p)
            /\ stream' = [stream EXCEPT ![hs[p].peer] = Tail(@)]
    /\ UNCHANGED <<engine, file_len, flock, uds_path>>

\* EventFdControl::new of the owner: the two eventfds are sent over the
\* handshake's stream, tagged 1 and 2, before the header is prepared.
EventFdSend(p) ==
    /\ hs[p].pc = "new"
    /\ hs[p].owner
    /\ hs[p].variant = "uds_memfd"
    /\ stream' = [stream EXCEPT ![p] =
                      @ \o <<Msg(hs[p].counter + 1, "left_event"),
                              Msg(hs[p].counter + 2, "right_event")>>]
    /\ hs' = [hs EXCEPT ![p].counter = @ + 2,
                        ![p].fd_sent = @ \o <<"left_event", "right_event">>,
                        ![p].pc = "new_futex"]
    /\ UNCHANGED <<engine, file_len, flock, uds_path>>

\* The last element of a queue and the rest of it.
PopBack(q) == <<q[Len(q)], SubSeq(q, 1, Len(q) - 1)>>

\* VecDeque::pop_front: the first element of a queue and the rest of it.
PopFront(q) == <<Head(q), Tail(q)>>

\* A comparison that takes any payload.
PayloadAny(got, expected) == TRUE

\* recv_fd_expecting: the payload read is the expected one.
PayloadMatches(got, expected) == got = expected

\* ExchangeFd::recv_fd.  A descriptor the handshake queued is returned
\* first, the counter untouched.  Otherwise the counter is incremented and
\* one message is read from the socket: Ok if its payload is the counter,
\* InvalidData if it is not or if the other end is closed.  The call goes
\* on at okpc after Ok and at errpc after Err.
RecvFdTo(p, okpc, errpc) ==
    /\ hs[p].variant = "uds_memfd"
    /\ IF hs[p].recv_fd_queue # <<>>
       THEN /\ hs' = [hs EXCEPT ![p].recv_fd_queue =
                                    PopFront(hs[p].recv_fd_queue)[2],
                                ![p].fd_got =
                                    Append(@, PopFront(hs[p].recv_fd_queue)[1]),
                                ![p].last = "ok",
                                ![p].pc = okpc]
            /\ UNCHANGED stream
       ELSE IF hs[p].conn = "closed"
       THEN /\ hs[p].counter < MaxFds
            /\ hs' = [hs EXCEPT ![p].counter = @ + 1,
                                ![p].last = "err",
                                ![p].pc = errpc]
            /\ UNCHANGED stream
       ELSE /\ Connected(p)
            /\ stream[hs[p].peer] # <<>>
            /\ hs[p].counter < MaxFds
            /\ LET msg == Head(stream[hs[p].peer])
                   expected == hs[p].counter + 1
               IN  hs' = IF PayloadMatches(msg.payload, expected)
                         THEN [hs EXCEPT ![p].counter = expected,
                                         ![p].fd_got = Append(@, msg.fd),
                                         ![p].last = "ok",
                                         ![p].pc = okpc]
                         ELSE [hs EXCEPT ![p].counter = expected,
                                         ![p].last = "err",
                                         ![p].pc = errpc]
            /\ stream' = [stream EXCEPT ![hs[p].peer] = Tail(@)]
    /\ UNCHANGED <<engine, file_len, flock, uds_path>>

\* EventFdControl::new of a process that is not the owner:
\* (recv_fd()?, recv_fd()?), the left eventfd and then the right one.
EventFdRecv(p) ==
    /\ ~hs[p].owner
    /\ \/ hs[p].pc = "new" /\ RecvFdTo(p, "new_right", "failed")
       \/ hs[p].pc = "new_right" /\ RecvFdTo(p, "new_futex", "failed")

\* ExchangeFd::send_fd of a queue in use: the counter is incremented and
\* sent with the descriptor.
SendFd(p) ==
    /\ hs[p].pc = "use"
    /\ hs[p].variant = "uds_memfd"
    /\ hs[p].counter < MaxFds
    /\ \E fd \in ExtraFds :
          /\ stream' = [stream EXCEPT
                            ![p] = Append(@, Msg(hs[p].counter + 1, fd))]
          /\ hs' = [hs EXCEPT ![p].counter = @ + 1,
                              ![p].fd_sent = Append(@, fd),
                              ![p].last = "ok"]
    /\ UNCHANGED <<engine, file_len, flock, uds_path>>

\* ExchangeFd::recv_fd of a queue in use.
RecvFd(p) ==
    /\ hs[p].pc = "use"
    /\ RecvFdTo(p, "use", "use")

\* ShmemFutexControl::new of the owner: header.write_bytes(0, size) begins.
NewZeroBegin(p) ==
    /\ hs[p].pc \in {"new", "new_futex"}
    /\ hs[p].owner
    /\ hs' = [hs EXCEPT ![p].pc = "zeroing"]
    /\ UNCHANGED <<engine, file_len, flock, uds_path, stream>>

\* The header is zero; the control is built; the owner goes on to
\* mark_ready.
NewZeroEnd(p) ==
    /\ hs[p].pc = "zeroing"
    /\ hs' = [hs EXCEPT ![p].pc = "mark"]
    /\ UNCHANGED <<engine, file_len, flock, uds_path, stream>>

\* ShmemFutexControl::new of a process that is not the owner stores into
\* the header at once; its mark_ready does nothing, the queue is in use.
NewPeer(p) ==
    /\ hs[p].pc \in {"new", "new_futex"}
    /\ ~hs[p].owner
    /\ hs' = [hs EXCEPT ![p].pc = "use"]
    /\ UNCHANGED <<engine, file_len, flock, uds_path, stream>>

\* NamedFileHandshakeResult::mark_ready of the owner: flock(LOCK_SH) on the
\* file it holds LOCK_EX on.  The conversion either replaces the lock in one
\* step or removes it first and then asks for the shared lock: flock(2)
\* does not promise the former.
NfMarkReady(p) ==
    /\ hs[p].pc = "mark"
    /\ hs[p].variant = "named_file"
    /\ \/ /\ flock' = [flock EXCEPT ![p] = "sh"]
          /\ hs' = [hs EXCEPT ![p].pc = "use"]
       \/ /\ flock' = [flock EXCEPT ![p] = "none"]
          /\ hs' = [hs EXCEPT ![p].pc = "nf_relock"]
    /\ UNCHANGED <<engine, file_len, uds_path, stream>>

\* The second half of a conversion in two steps: the shared lock.
NfRelock(p) ==
    /\ hs[p].pc = "nf_relock"
    /\ ShGrantable(p)
    /\ flock' = [flock EXCEPT ![p] = "sh"]
    /\ hs' = [hs EXCEPT ![p].pc = "use"]
    /\ UNCHANGED <<engine, file_len, uds_path, stream>>

\* UdsMemfdHandshakeResult::mark_ready of the owner: the memfd is sent
\* with the negotiation message.
UdsMarkReady(p) ==
    /\ hs[p].pc = "mark"
    /\ hs[p].variant = "uds_memfd"
    /\ stream' = [stream EXCEPT
                      ![p] = Append(@, Msg(NEGOTIATION_MESSAGE, "memfd"))]
    /\ hs' = [hs EXCEPT ![p].pc = "use"]
    /\ UNCHANGED <<engine, file_len, flock, uds_path>>

\* The queue and its handshake result are dropped: flock(LOCK_UN) for the
\* named file, the stream closed for the socket.
HsDrop(p) ==
    /\ hs[p].pc \in {"use", "failed"}
    /\ hs' = CloseStream(p)
    /\ flock' = [flock EXCEPT ![p] = "none"]
    /\ stream' = [stream EXCEPT ![p] = <<>>]
    /\ UNCHANGED <<engine, file_len, uds_path>>

HandshakeNext ==
    \E p \in Procs :
        \/ HsStart(p)
        \/ NfTryLock(p)
        \/ NfWaitShared(p)
        \/ UdsBind(p)
        \/ UdsAccept(p)
        \/ UdsConnect(p)
        \/ UdsRemove(p)
        \/ UdsRecv(p)
        \/ EventFdSend(p)
        \/ NewZeroBegin(p)
        \/ NewZeroEnd(p)
        \/ NewPeer(p)
        \/ NfMarkReady(p)
        \/ NfRelock(p)
        \/ UdsMarkReady(p)
        \/ HsDrop(p)

HandshakeSpec == Init /\ [][HandshakeNext]_vars

\* Two processes make a queue and go on exchanging descriptors over the
\* stream of the handshake.
ExchangeNext ==
    \E p \in SizeProcs :
        \/ HsStart(p)
        \/ NfTryLock(p)
        \/ NfWaitShared(p)
        \/ UdsBind(p)
        \/ UdsAccept(p)
        \/ UdsConnect(p)
        \/ UdsRemove(p)
        \/ UdsRecv(p)
        \/ EventFdSend(p)
        \/ EventFdRecv(p)
        \/ SendFd(p)
        \/ RecvFd(p)
        \/ NewZeroBegin(p)
        \/ NewZeroEnd(p)
        \/ NewPeer(p)
        \/ NfMarkReady(p)
        \/ NfRelock(p)
        \/ UdsMarkReady(p)
        \/ HsDrop(p)

ExchangeSpec == Init /\ [][ExchangeNext]_vars

\* The sizes asked of a handshake: none, less than a page, a page, more.
RequestedSizes == {0, 1, PAGE_SIZE, PAGE_SIZE + 1}

SizeNext ==
    \E p \in SizeProcs :
        \/ HsStartWith(p, RequestedSizes)
        \/ NfTryLock(p)
        \/ NfWaitShared(p)
        \/ UdsBind(p)
        \/ UdsAccept(p)
        \/ UdsConnect(p)
        \/ UdsRemove(p)
        \/ UdsRecv(p)
        \/ EventFdSend(p)
        \/ NewZeroBegin(p)
        \/ NewZeroEnd(p)
        \/ NewPeer(p)
        \/ NfMarkReady(p)
        \/ NfRelock(p)
        \/ UdsMarkReady(p)
        \/ HsDrop(p)

SizeSpec == Init /\ [][SizeNext]_vars

\* -------------------------------------------- src/src/control/eventfd.rs

rest ==
    <<queue, lock, guards, pc, mtx, ret, futex_ctl, handshake, mm, eng>>

\* EventFdControl::wait(side, expected) is called:
\* waiters(side).fetch_add(1).
EvWait(t) ==
    /\ ev[t].pc = "idle"
    /\ store_buf[t] = <<>>
    /\ \E side \in Mutexes, expected \in 0 .. MaxOffset :
          /\ waiters' = [waiters EXCEPT ![side] = @ + 1]
          /\ ev' = [ev EXCEPT ![t] = [pc |-> "check", side |-> side,
                                      expected |-> expected, out |-> "none"]]
    /\ UNCHANGED <<rest, store_buf, event, half_offset>>

\* if half.offset.load() == expected: the poll follows, otherwise it is
\* skipped.
EvCheck(t) ==
    /\ ev[t].pc = "check"
    /\ ev' = [ev EXCEPT ![t].pc =
                  IF half_offset[ev[t].side] = ev[t].expected
                  THEN "poll" ELSE "dec"]
    /\ UNCHANGED <<rest, store_buf, event, waiters, half_offset>>

\* poll(event(side), POLLIN, timeout) returns 1: the counter of the eventfd
\* is not zero.
EvPollReady(t) ==
    /\ ev[t].pc = "poll"
    /\ event[ev[t].side] > 0
    /\ ev' = [ev EXCEPT ![t].pc = "read"]
    /\ UNCHANGED <<rest, store_buf, event, waiters, half_offset>>

\* poll returns less than 1: the counter stayed zero for the whole timeout.
\* 0xDEAD is written to the eventfd of the other side (a write adds to the
\* counter) and the process panics.
EvPollTimeout(t) ==
    /\ ev[t].pc = "poll"
    /\ event[ev[t].side] = 0
    /\ event' = [event EXCEPT ![Other(ev[t].side)] = @ + DEAD]
    /\ ev' = [ev EXCEPT ![t].pc = "panic", ![t].out = "panic"]
    /\ UNCHANGED <<rest, store_buf, waiters, half_offset>>

\* u64::from_ne_bytes(buf) == 0xDEAD
IsSentinel(value) == value = DEAD

\* read(event(side)): the counter is returned and reset to zero (the read
\* blocks while it is zero); the process panics if the value is 0xDEAD.
EvRead(t) ==
    /\ ev[t].pc = "read"
    /\ event[ev[t].side] > 0
    /\ event' = [event EXCEPT ![ev[t].side] = 0]
    /\ ev' = IF IsSentinel(event[ev[t].side])
             THEN [ev EXCEPT ![t].pc = "panic", ![t].out = "panic"]
             ELSE [ev EXCEPT ![t].pc = "dec"]
    /\ UNCHANGED <<rest, store_buf, waiters, half_offset>>

\* The read fails (it blocks on a counter that another reader has reset,
\* and a signal interrupts it): `if res < 0 { return Err(..) }`, before
\* the fetch_sub.
EvReadFails(t) ==
    /\ ev[t].pc = "read"
    /\ event[ev[t].side] = 0
    /\ ev' = [ev EXCEPT ![t].pc = "idle", ![t].out = "err"]
    /\ UNCHANGED <<rest, store_buf, event, waiters, half_offset>>

\* waiters(side).fetch_sub(1); Ok(()).
EvWaitReturn(t) ==
    /\ ev[t].pc = "dec"
    /\ waiters' = [waiters EXCEPT ![ev[t].side] = @ - 1]
    /\ ev' = [ev EXCEPT ![t].pc = "idle", ![t].out = "ok"]
    /\ UNCHANGED <<rest, store_buf, event, half_offset>>

\* The offsets as memory holds them once the store of t has left its store
\* buffer.
Visible(t) ==
    IF store_buf[t] = <<>>
    THEN half_offset
    ELSE [half_offset EXCEPT ![store_buf[t][1]] = store_buf[t][2]]

\* EventFdControl::notify(side): 1 is written to the eventfd of the side
\* if waiters(side) is not zero.  The load of waiters may overtake the
\* Release store of the commit_offset before it; the write is a system
\* call, which the store does not outlast.
EvNotify(t) ==
    /\ ev[t].pc \in {"idle", "committed"}
    /\ \E side \in Mutexes :
          /\ ev[t].pc = "committed" => side = ev[t].side
          /\ event[side] % DEAD < MaxPending
          /\ IF waiters[side] # 0
             THEN /\ event' = [event EXCEPT ![side] = @ + 1]
                  /\ half_offset' = Visible(t)
                  /\ store_buf' = [store_buf EXCEPT ![t] = <<>>]
             ELSE UNCHANGED <<event, half_offset, store_buf>>
    /\ ev' = [ev EXCEPT ![t].pc = "idle", ![t].out = "none"]
    /\ UNCHANGED <<rest, waiters>>

\* Control::commit_offset(side, offset): half(side).offset.store(offset,
\* Release).  The store sits in the store buffer of the processor until
\* StoreDrain; notify(side) is what the caller runs next.
EvCommitOffset(t) ==
    /\ ev[t].pc = "idle"
    /\ store_buf[t] = <<>>
    /\ \E side \in Mutexes, offset \in 0 .. MaxOffset :
          /\ store_buf' = [store_buf EXCEPT ![t] = <<side, offset>>]
          /\ ev' = [ev EXCEPT ![t].pc = "committed", ![t].side = side,
                              ![t].out = "none"]
    /\ UNCHANGED <<rest, event, waiters, half_offset>>

\* The store of commit_offset becomes visible to the other threads.
StoreDrain(t) ==
    /\ store_buf[t] # <<>>
    /\ half_offset' = Visible(t)
    /\ store_buf' = [store_buf EXCEPT ![t] = <<>>]
    /\ UNCHANGED <<rest, event, waiters, ev>>

EventNext ==
    \E t \in EvProcs :
        \/ EvWait(t)
        \/ EvCheck(t)
        \/ EvPollReady(t)
        \/ EvPollTimeout(t)
        \/ EvRead(t)
        \/ EvReadFails(t)
        \/ EvWaitReturn(t)
        \/ EvNotify(t)
        \/ EvCommitOffset(t)
        \/ StoreDrain(t)

EventSpec == Init /\ [][EventNext]_vars

\* The program positions between the increment and the decrement of
\* waiters(side) in wait(side, ..) of either back-end.
InsideWait(t, side) ==
    /\ ev[t].side = side
    /\ ev[t].pc \in {"check", "poll", "read", "dec",
                     "fx_wait", "fx_parked", "fx_dec"}

\* The queue has one producer and one consumer: one thread at a time is
\* inside wait(side, ..) for each side.
SingleWaiter ==
    \A side \in Mutexes :
        Cardinality({t \in EvProcs : InsideWait(t, side)}) <= 1

SoloEventNext == EventNext /\ SingleWaiter'

SoloEventSpec == Init /\ [][SoloEventNext]_vars

\* ------------------- src/src/control/shmem_futex.rs: wait and notify

\* ShmemFutexControl::wait(side, expected) is called.  With spin_on_wait
\* above zero a spin iteration that loads an offset other than expected
\* returns Ok(()); otherwise waiters(side).fetch_add(1) follows.
FxWait(t) ==
    /\ ev[t].pc = "idle"
    /\ store_buf[t] = <<>>
    /\ \E side \in Mutexes, expected \in 0 .. MaxOffset :
          \/ /\ half_offset[side] # expected
             /\ ev' = [ev EXCEPT ![t] = [pc |-> "idle", side |-> side,
                                         expected |-> expected,
                                         out |-> "ok"]]
             /\ UNCHANGED waiters
          \/ /\ waiters' = [waiters EXCEPT ![side] = @ + 1]
             /\ ev' = [ev EXCEPT ![t] = [pc |-> "fx_wait", side |-> side,
                                         expected |-> expected,
                                         out |-> "none"]]
    /\ UNCHANGED <<rest, store_buf, event, half_offset>>

\* futex_wait(&half.offset, expected): the kernel compares the word with
\* expected and puts the thread to sleep only if they are equal.
FxFutexWait(t) ==
    /\ ev[t].pc = "fx_wait"
    /\ ev' = [ev EXCEPT ![t].pc =
                  IF half_offset[ev[t].side] = ev[t].expected
                  THEN "fx_parked" ELSE "fx_dec"]
    /\ UNCHANGED <<rest, store_buf, event, waiters, half_offset>>

\* The futex syscall returns without a wake (a signal); its result is not
\* looked at.
FxInterrupted(t) ==
    /\ ev[t].pc = "fx_parked"
    /\ ev' = [ev EXCEPT ![t].pc = "fx_dec"]
    /\ UNCHANGED <<rest, store_buf, event, waiters, half_offset>>

\* waiters.fetch_sub(1, Release); Ok(()).
FxWaitReturn(t) ==
    /\ ev[t].pc = "fx_dec"
    /\ waiters' = [waiters EXCEPT ![ev[t].side] = @ - 1]
    /\ ev' = [ev EXCEPT ![t].pc = "idle", ![t].out = "ok"]
    /\ UNCHANGED <<rest, store_buf, event, half_offset>>

\* ShmemFutexControl::notify(side): `waiters(side).load(Acquire) != 0`.
\* The load may overtake the Release store of the commit_offset before it.
FxNotify(t) ==
    /\ ev[t].pc \in {"idle", "committed"}
    /\ \E side \in Mutexes :
          /\ ev[t].pc = "committed" => side = ev[t].side
          /\ ev' = [ev EXCEPT ![t].pc = IF waiters[side] # 0
                                        THEN "fx_wake" ELSE "idle",
                              ![t].side = side,
                              ![t].out = "none"]
    /\ UNCHANGED <<rest, store_buf, event, waiters, half_offset>>

\* futex_wake(&half.offset, 1) wakes one of the threads asleep on the word,
\* if there is one.  It is a system call, which the store does not outlast.
FxWake(t) ==
    /\ ev[t].pc = "fx_wake"
    /\ \/ \E u \in EvProcs :
            /\ ev[u].pc = "fx_parked"
            /\ ev[u].side = ev[t].side
            /\ ev' = [ev EXCEPT ![t].pc = "idle", ![u].pc = "fx_dec"]
       \/ /\ \A u \in EvProcs :
                ~(ev[u].pc = "fx_parked" /\ ev[u].side = ev[t].side)
          /\ ev' = [ev EXCEPT ![t].pc = "idle"]
    /\ half_offset' = Visible(t)
    /\ store_buf' = [store_buf EXCEPT ![t] = <<>>]
    /\ UNCHANGED <<rest, event, waiters>>

FutexWaitNext ==
    \E t \in EvProcs :
        \/ FxWait(t)
        \/ FxFutexWait(t)
        \/ FxInterrupted(t)
        \/ FxWaitReturn(t)
        \/ FxNotify(t)
        \/ FxWake(t)
        \/ EvCommitOffset(t)
        \/ StoreDrain(t)

SoloFutexNext == FutexWaitNext /\ SingleWaiter'

SoloFutexSpec == Init /\ [][SoloFutexNext]_vars

\* ------------------------------------------------------ src/src/mmap.rs

others == <<left, right, plocals, clocals, res, sent, recvd, owner, fault,
            lock, guards, pc, mtx, ret, futex_ctl, handshake, event_ctl,
            eng>>

\* A mapping that is not placed at the address asked for: the address
\* space there stays as it was.
MmapElsewhere(vmap, at, len, offset) == vmap

\* mmap(big + at, len, .., MAP_SHARED | MAP_FIXED, fd, offset): the bytes
\* at + i, i < len, are the bytes offset + i of the file.
MmapFixed(vmap, at, len, offset) ==
    [v \in Virt |-> IF v >= at /\ v < at + len
                    THEN offset + (v - at)
                    ELSE vmap[v]]

\* munmap(big + at, len)
Munmap(vmap, at, len) ==
    [v \in Virt |-> IF v >= at /\ v < at + len THEN Unmapped ELSE vmap[v]]

\* from_fd: the test of queue_size, then the anonymous mapping of
\* 2 * queue_size bytes at `big`; Err if either fails.
MapBig ==
    /\ mm.pc = "start"
    /\ \/ /\ QueueSize % PAGE_SIZE = 0
          /\ mm' = [mm EXCEPT !.pc = "left",
                              !.vm = [v \in Virt |-> Anonymous]]
       \/ mm' = [mm EXCEPT !.pc = "err"]
    /\ UNCHANGED <<ring, others>>

\* The first half is mapped to the file at offset page_size; on MAP_FAILED
\* the reservation is unmapped.
MapLeft ==
    /\ mm.pc = "left"
    /\ \/ mm' = [mm EXCEPT !.pc = "right",
                           !.vm = MmapFixed(mm.vm, 0, QueueSize, PAGE_SIZE)]
       \/ mm' = [mm EXCEPT !.pc = "err",
                           !.vm = Munmap(mm.vm, 0, 2 * QueueSize)]
    /\ UNCHANGED <<ring, others>>

\* The second half is mapped to the file at the same offset; on MAP_FAILED
\* both halves are unmapped.
MapRight ==
    /\ mm.pc = "right"
    /\ \/ mm' = [mm EXCEPT !.pc = "header",
                           !.vm = MmapFixed(mm.vm, QueueSize, QueueSize,
                                            PAGE_SIZE)]
       \/ mm' = [mm EXCEPT !.pc = "err",
                           !.vm = Munmap(Munmap(mm.vm, 0, QueueSize),
                                         QueueSize, QueueSize)]
    /\ UNCHANGED <<ring, others>>

\* The header page is mapped somewhere else; on MAP_FAILED the two Mmap
\* values are dropped, which unmaps them.
MapHeader ==
    /\ mm.pc = "header"
    /\ \/ mm' = [mm EXCEPT !.pc = "ready"]
       \/ mm' = [mm EXCEPT !.pc = "err",
                           !.vm = Munmap(Munmap(mm.vm, 0, QueueSize),
                                         QueueSize, QueueSize)]
    /\ UNCHANGED <<ring, others>>

\* The byte read at big + v: the byte of the file behind it; the queue's
\* bytes of the file begin at page_size.
Load(v) ==
    IF mm.vm[v] >= PAGE_SIZE /\ mm.vm[v] < PAGE_SIZE + QueueSize
    THEN ring[mm.vm[v] - PAGE_SIZE]
    ELSE 0

\* A byte is stored at big + v, as the copies of write do: it reaches the
\* byte of the file behind the address.
MapStore ==
    /\ mm.pc = "ready"
    /\ mm.stores < MaxStores
    /\ \E v \in Virt, b \in {1, 255} :
          /\ ring' = IF mm.vm[v] >= PAGE_SIZE
                        /\ mm.vm[v] < PAGE_SIZE + QueueSize
                     THEN [ring EXCEPT ![mm.vm[v] - PAGE_SIZE] = b]
                     ELSE ring
          /\ mm' = [mm EXCEPT !.stores = @ + 1, !.last = v]
    /\ UNCHANGED others

MapNext == MapBig \/ MapLeft \/ MapRight \/ MapHeader \/ MapStore

MapSpec == Init /\ [][MapNext]_vars

\* ----------------------- the ring engine over a Control (spec.md, 4.4)

\* The width of the offsets of the header (AtomicU32), scaled down.
U32Bits == 7

U32Mod == 2^U32Bits

\* A u32 computation, reduced as the hardware reduces it.
Wrap32(x) == x % U32Mod

\* The sends made on one queue.
MaxEngSends == 4

\* The lengths of the buffers a send callback writes.
EngLens == {PrefixSize, 2 * PrefixSize}

\* The capacities a handshake hands over: the multiples of the page size.
Capacities == {PAGE_SIZE, 2 * PAGE_SIZE, 4 * PAGE_SIZE}

\* What the engine over a Control leaves alone.
outside ==
    <<queue, lock, guards, pc, mtx, ret, handshake, mm, half_guards, event,
      waiters, ev, store_buf>>

Min(a, b) == IF a < b THEN a ELSE b

\* Control::cached_offset(side): half(side.other()).cached_other_offset,
\* Unknown standing for None.
CachedOffset(side) == eng.cache[Other(side)]

\* The caches after Control::sync_load_offset(side), which returns
\* half(side).offset and stores it into half(side.other())
\* .cached_other_offset.
SyncLoadOffset(side) == [eng.cache EXCEPT ![Other(side)] = half_offset[side]]

\* ptr::copy of k bytes to the virtual offset `at` of a ring of q bytes;
\* each byte is written as `tag`.
Fill(r, q, at, k, tag) ==
    [i \in DOMAIN r |->
        IF \E j \in 0 .. (k - 1) : (at + j) % q = i THEN tag ELSE r[i]]

\* ShmemFutexControl::new of the owner: the header page is zero-filled,
\* then both caches are set to u32::MAX.
EngNewOf(capacities) ==
    /\ eng.Q = 0
    /\ \E q \in capacities :
          eng' = [eng EXCEPT !.Q = q,
                             !.cache = [m \in Mutexes |-> Unknown],
                             !.ring = [i \in 0 .. (q - 1) |-> 0]]
    /\ half_offset' = [m \in Mutexes |-> 0]
    /\ half_lock' = [m \in Mutexes |-> 0]
    /\ UNCHANGED outside

EngNewUpTo(limit) == EngNewOf({q \in Capacities : q <= limit})

EngNew == EngNewUpTo(2 * PAGE_SIZE)

\* Every process prepares the header page.
ZeroFillsAlways(is_owner) == TRUE

\* ShmemFutexControl::new prepares the header page: the branch
\* `if handshake_result.is_owner()` before write_bytes(0, ..).
ZeroFills(is_owner) == is_owner

\* The header words after that branch.
Prepared(is_owner, words) ==
    IF ZeroFills(is_owner) THEN [m \in Mutexes |-> 0] ELSE words

\* ShmemFutexControl::new of a process that is not the owner, up to its
\* first store: left.cached_other_offset = u32::MAX.
EngAttachLeft ==
    /\ eng.Q > 0
    /\ eng.attach = 0
    /\ eng' = [eng EXCEPT !.cache["left"] = Unknown, !.attach = 1]
    /\ half_offset' = Prepared(FALSE, half_offset)
    /\ half_lock' = Prepared(FALSE, half_lock)
    /\ waiters' = Prepared(FALSE, waiters)
    /\ UNCHANGED <<queue, lock, guards, pc, mtx, ret, handshake, mm,
                   half_guards, event, ev, store_buf>>

\* Its second store: right.cached_other_offset = u32::MAX.
EngAttachRight ==
    /\ eng.attach = 1
    /\ eng' = [eng EXCEPT !.cache["right"] = Unknown, !.attach = 2]
    /\ UNCHANGED <<half_offset, half_lock, outside>>

\* send, steps 1 to 3: the right lock is taken, R is right.offset, and the
\* prefix is handed to the writer as a buffer of zero bytes.
EngSend ==
    /\ eng.Q > 0
    /\ eng.p.pc = "idle"
    /\ eng.sends < MaxEngSends
    /\ half_lock["right"] = 0
    /\ half_lock' = [half_lock EXCEPT !["right"] = 1]
    /\ eng' = [eng EXCEPT !.p = [pc |-> "reserve", R |-> half_offset["right"],
                                 W |-> 0, L |-> 0, n |-> PrefixSize],
                          !.sends = @ + 1]
    /\ UNCHANGED <<half_offset, outside>>

\* The callback calls write(buf): the write fails if buf.len() + W exceeds
\* min(u32::MAX, Q - sizeof(prefix)).
EngCallbackWrite ==
    /\ eng.p.pc = "cb"
    /\ \E len \in EngLens :
          eng' = IF len + eng.p.W > Min(U32Mod - 1, eng.Q - PrefixSize)
                 THEN [eng EXCEPT !.p.pc = "fail"]
                 ELSE [eng EXCEPT !.p.pc = "reserve", !.p.n = len]
    /\ UNCHANGED <<half_offset, half_lock, outside>>

\* The callback returns, with success or with a failure of its own.
EngCallbackReturn ==
    /\ eng.p.pc = "cb"
    /\ \E next \in {"finish", "fail"} : eng' = [eng EXCEPT !.p.pc = next]
    /\ UNCHANGED <<half_offset, half_lock, outside>>

\* A failed send commits nothing; the right lock is released.
EngFail ==
    /\ eng.p.pc = "fail"
    /\ half_lock' = [half_lock EXCEPT !["right"] = 0]
    /\ eng' = [eng EXCEPT !.p.pc = "idle"]
    /\ UNCHANGED <<half_offset, outside>>

\* Reservation, first step: L is the cached offset if there is one and
\* L + Q > R + W + buf.len(), else sync_load_offset(left).
EngDetermineL ==
    /\ eng.p.pc = "reserve"
    /\ LET cached == CachedOffset("left")
           use == /\ cached # Unknown
                  /\ cached + eng.Q > eng.p.R + eng.p.W + eng.p.n
       IN  eng' = [eng EXCEPT
                     !.p.L = IF use THEN cached ELSE half_offset["left"],
                     !.p.pc = "space",
                     !.cache = IF use THEN @ ELSE SyncLoadOffset("left")]
    /\ UNCHANGED <<half_offset, half_lock, outside>>

\* Reservation: the window ends at min(L + Q, 2Q).  If space remains, as
\* many bytes of buf as fit are copied to R + W; else if L >= Q the rewind
\* follows; else wait(left, L), and the loop starts again.
EngReserve ==
    /\ eng.p.pc = "space"
    /\ LET end == Min(eng.p.L + eng.Q, 2 * eng.Q)
           space == end - (eng.p.R + eng.p.W)
           k == Min(eng.p.n, space)
       IN  eng' =
             IF space > 0
             THEN [eng EXCEPT
                     !.ring = Fill(@, eng.Q, eng.p.R + eng.p.W, k,
                                   IF eng.p.W < PrefixSize THEN 0 ELSE -1),
                     !.p.W = @ + k,
                     !.p.n = @ - k,
                     !.p.pc = IF k = eng.p.n THEN "cb" ELSE "reserve"]
             ELSE IF eng.p.L >= eng.Q
             THEN [eng EXCEPT !.p.pc = "rewind_lock"]
             ELSE [eng EXCEPT !.p.pc = "reserve"]
    /\ UNCHANGED <<half_offset, half_lock, outside>>

\* The rewind takes the left lock.
EngRewindLock ==
    /\ eng.p.pc = "rewind_lock"
    /\ half_lock["left"] = 0
    /\ half_lock' = [half_lock EXCEPT !["left"] = 1]
    /\ eng' = [eng EXCEPT !.p.pc = "rewind"]
    /\ UNCHANGED <<half_offset, outside>>

\* Control::fix_offsets(left_offset, right_offset): both offsets are
\* stored, left.cached_other_offset = right_offset and
\* right.cached_other_offset = left_offset.
FixOffsets(left_offset, right_offset) ==
    [offset |-> [left |-> left_offset, right |-> right_offset],
     cache |-> [left |-> right_offset, right |-> left_offset]]

\* The rewind, under both locks: L' is read again, left.offset = L' - Q,
\* right.offset = R + W - Q, both caches are rewritten, the local R becomes
\* the new right.offset and the left lock is released.
EngRewind ==
    /\ eng.p.pc = "rewind"
    /\ LET fixed == FixOffsets(Wrap32(half_offset["left"] - eng.Q),
                               Wrap32(eng.p.R + eng.p.W - eng.Q))
       IN  /\ half_offset' = fixed.offset
           /\ eng' = [eng EXCEPT !.cache = fixed.cache,
                                 !.p.R = fixed.offset["right"],
                                 !.p.pc = "reserve",
                                 !.committed = @ - eng.Q]
    /\ half_lock' = [half_lock EXCEPT !["left"] = 0]
    /\ UNCHANGED outside

\* send, steps 4 to 7: the prefix at R is overwritten with
\* total_written - W, commit_offset(right, R + total_written), the lock is
\* released.
EngFinish ==
    /\ eng.p.pc = "finish"
    /\ half_offset' = [half_offset EXCEPT
                          !["right"] = Wrap32(eng.p.R + eng.p.W)]
    /\ half_lock' = [half_lock EXCEPT !["right"] = 0]
    /\ eng' = [eng EXCEPT
                 !.ring = Fill(@, eng.Q, eng.p.R, PrefixSize,
                               eng.p.W - PrefixSize),
                 !.committed = Wrap32(eng.p.R + eng.p.W),
                 !.sent = Append(@, eng.p.W - PrefixSize),
                 !.p.pc = "idle"]
    /\ UNCHANGED outside

\* recv, steps 1 and 2: the left lock is taken, L = load_offset(left).
EngRecv ==
    /\ eng.Q > 0
    /\ eng.c.pc = "idle"
    /\ half_lock["left"] = 0
    /\ half_lock' = [half_lock EXCEPT !["left"] = 1]
    /\ eng' = [eng EXCEPT !.c = [pc |-> "det_r", L |-> half_offset["left"],
                                 R |-> 0]]
    /\ UNCHANGED <<half_offset, outside>>

\* recv, step 3: R is the cached offset if it is above L, else
\* sync_load_offset(right).
EngDetermineR ==
    /\ eng.c.pc = "det_r"
    /\ LET cached == CachedOffset("right")
           use == cached # Unknown /\ cached > eng.c.L
       IN  eng' = [eng EXCEPT
                     !.c.R = IF use THEN cached ELSE half_offset["right"],
                     !.c.pc = "deliver",
                     !.cache = IF use THEN @ ELSE SyncLoadOffset("right")]
    /\ UNCHANGED <<half_offset, half_lock, outside>>

\* The bytes of the prefix at the virtual offset `at`.
PrefixCells(at) == {eng.ring[(at + j) % eng.Q] : j \in 0 .. (PrefixSize - 1)}

\* recv, steps 4 to 8.  If R > L the prefix at L is read, the payload is
\* passed to the callback and commit_offset(left, L + sizeof(prefix) +
\* size); else the lock is released and the loop starts again after
\* wait(right, R).  A prefix that is not the image of one size is read as
\* a size nobody wrote.
EngDeliver ==
    /\ eng.c.pc = "deliver"
    /\ IF eng.c.R > eng.c.L
       THEN IF \E size \in 0 .. eng.Q : PrefixCells(eng.c.L) = {size}
            THEN LET size == CHOOSE v \in 0 .. eng.Q :
                                PrefixCells(eng.c.L) = {v}
                 IN  /\ half_offset' =
                           [half_offset EXCEPT !["left"] =
                               Wrap32(eng.c.L + PrefixSize + size)]
                     /\ half_lock' = [half_lock EXCEPT !["left"] = 0]
                     /\ eng' = [eng EXCEPT !.recvd = Append(@, size),
                                           !.c.pc = "idle"]
            ELSE /\ eng' = [eng EXCEPT !.corrupt = TRUE, !.c.pc = "bad"]
                 /\ UNCHANGED <<half_offset, half_lock>>
       ELSE /\ half_lock' = [half_lock EXCEPT !["left"] = 0]
            /\ eng' = [eng EXCEPT !.c.pc = "idle"]
            /\ UNCHANGED half_offset
    /\ UNCHANGED outside

EngNext ==
    \/ EngNew
    \/ EngAttachLeft
    \/ EngAttachRight
    \/ EngSend
    \/ EngCallbackWrite
    \/ EngCallbackReturn
    \/ EngFail
    \/ EngDetermineL
    \/ EngReserve
    \/ EngRewindLock
    \/ EngRewind
    \/ EngFinish
    \/ EngRecv
    \/ EngDetermineR
    \/ EngDeliver

EngSpec == Init /\ [][EngNext]_vars

\* The engine with rewinds that start before anything of the message was
\* written (W = 0): the schedules in which the rewind moves no bytes in
\* flight.
CleanRewind == eng.p.pc = "rewind" => eng.p.W = 0

AttachNext == EngNext /\ CleanRewind'

AttachSpec == Init /\ [][AttachNext]_vars

\* named_file takes every multiple of the page size as queue_size: the
\* owner's is rounded up with next_multiple_of and the peer's is the length
\* of the file less one page; neither is compared with anything.  Half of
\* the range of a u32 is such a multiple.
AcceptedCapacities == Capacities \cup {U32Mod \div 2}

\* On the widest capacity the owner runs alone and sends three messages.
WideAllowed ==
    eng'.Q = U32Mod \div 2 => (eng'.sends <= 3 /\ eng'.attach = 0)

\* The engine on every capacity the handshake accepts.
WideNext == (EngNewOf(AcceptedCapacities) \/ EngNext) /\ WideAllowed

WideSpec == Init /\ [][WideNext]_vars

\* ------------------------------------------------------------ properties

IsPrefix(s, t) ==
    /\ Len(s) <= Len(t)
    /\ \A i \in 1 .. Len(s) : s[i] = t[i]

\* The payloads of the committed sends, in commit order.
SentData == [i \in 1 .. Len(sent) |-> sent[i].data]

\* Every message sent so far fits the ring: payload plus prefix is at most Q.
AllFit ==
    /\ \A i \in 1 .. Len(sent) : Len(sent[i].data) + PrefixSize <= QueueSize
    /\ total_written + Len(buf) <= QueueSize

\* No send callback has failed so far.
NoFailure ==
    /\ \A i \in 1 .. Len(sent) : sent[i].ok
    /\ res["prod"] \in {"none", "ok"}

\* The intended use: every message fits the ring and no send failed.
Nominal == AllFit /\ NoFailure

\* C1: in the intended use, the slices passed to the read callbacks are a
\* prefix of the payloads committed by write, in the same order, each once
\* and byte for byte.
C1_FifoExactlyOnce == Nominal => IsPrefix(recvd, SentData)

InSend == pc["prod"] # "idle"

InRecv == pc["cons"] # "idle"

\* C2: under fair scheduling of both threads, with the consumer calling
\* read again and again, a started send eventually completes (intended use:
\* every message fits the ring).
C2_SendCompletes ==
    (InSend /\ Nominal /\ ~fault) ~> (~InSend \/ ~Nominal \/ fault)

\* C3: under fair scheduling, a started recv eventually returns once a
\* committed message is unread (right.offset > left.offset), in the intended
\* use.
C3_RecvReturns ==
    (InRecv /\ right > left /\ Nominal /\ ~fault)
        ~> (~InRecv \/ ~Nominal \/ fault)

\* The physical bytes of the committed, unconsumed window [left, right).
Unread ==
    IF right <= left THEN {}
    ELSE IF right - left >= QueueSize THEN 0 .. (QueueSize - 1)
    ELSE PhysCells(left, right - left)

\* The physical bytes the producer's next step writes.
WriteTarget ==
    IF pc["prod"] = "zero" THEN PhysCells(a_right, PrefixSize)
    ELSE IF pc["prod"] = "copy"
         THEN PhysCells(a_right + total_written, Len(buf))
    ELSE IF pc["prod"] = "prefix" THEN PhysCells(len_ptr, PrefixSize)
    ELSE {}

\* The sends that committed after their callback succeeded.
Committed == {sent[i].id : i \in {j \in 1 .. Len(sent) : sent[j].ok}}

\* The physical bytes the consumer's next step reads.
ReadTarget ==
    IF pc["cons"] = "rprefix" THEN PhysCells(r_left, PrefixSize)
    ELSE IF pc["cons"] = "rcb" THEN PhysCells(r_left + PrefixSize, r_size)
    ELSE {}

\* C4: in the intended use and outside the two stores of a rewind,
\* left.offset <= right.offset and right.offset - left.offset <= Q.
C4_OffsetsOrdered ==
    (Nominal /\ pc["prod"] # "sub_right")
        => (left <= right /\ right - left <= QueueSize)

\* C5: every prefix and payload byte the consumer reads was last written by
\* a send that committed after its callback succeeded (all messages fit).
C5_ReadsOnlyCommitted ==
    AllFit => \A i \in ReadTarget : owner[i] \in Committed

\* C6: in the intended use, every byte the producer writes (zero prefix,
\* payload chunk, size prefix) lies outside the unread window
\* [left.offset, right.offset).
C6_WritesOutsideUnread == Nominal => WriteTarget \cap Unread = {}

\* C7: in the intended use, while the read callback runs, left.offset still
\* points at the start of the message it is reading.
C7_CommitAfterCallback == (Nominal /\ pc["cons"] = "rcb") => left = r_left

\* C8: a send whose callback failed does not change right.offset.
C8_FailedSendNoCommit ==
    [][(pc["prod"] = "commit" /\ res["prod"] # "ok") => right' = right]_vars

\* left.offset after the read of the message at l with payload size n.
Advanced(l, n) == WrappingAdd(l, PrefixSize + n)

ParkedOn(t, m) == pc[t] \in {"lock_pk", "wait_pk"} /\ mtx[t] = m

\* C9: when the read callback fails, left.offset has been advanced by
\* PrefixSize + size all the same, and the return of that read wakes the
\* producer if it sleeps on the left futex.
C9_FailedRecvConsumes ==
    [][/\ (pc["cons"] = "rcb" /\ res'["cons"] = "err")
            => left' = Advanced(r_left, r_size)
       /\ (pc["cons"] = "wake" /\ pc'["cons"] = "idle" /\ res["cons"] = "err")
            => ~ParkedOn("prod", "left")']_vars

\* A read whose callback failed on a non-empty message has just returned
\* its result.
C9_Witness ==
    /\ pc["cons"] = "drop"
    /\ res["cons"] = "err"
    /\ Len(recvd) > 0
    /\ Len(recvd[Len(recvd)]) > 0
    /\ AllFit

\* The producer is inside alloc_for_write.
InAlloc ==
    \/ pc["prod"] \in {"alloc", "sub_left", "sub_right", "load_right", "copy"}
    \/ /\ pc["prod"] \in {"lock", "lock_fx", "lock_pk", "drop", "wake"}
       /\ mtx["prod"] = "left"
    \/ pc["prod"] \in {"wait", "wait_fx", "wait_pk"}

\* C10: a write(buf) with buf.len() + total_written above the capacity
\* returns the error without entering alloc_for_write, and the send that
\* fails this way leaves both offsets unchanged.
C10_OversizeRejected ==
    /\ []((InAlloc /\ a_reason = "data")
            => total_written + Len(buf) <= QueueSize)
    /\ [][(pc["prod"] = "commit" /\ res["prod"] = "too_long")
            => (left' = left /\ right' = right)]_vars

\* The producer sleeps or is about to sleep in left_lock.wait().
ProducerWaits == pc["prod"] \in {"wait", "wait_fx", "wait_pk"}

\* Only the first send has been started, the buffer it writes fits the
\* ring, and its callback has not failed on its own.
FirstSendOnly ==
    /\ sends = 1
    /\ AllFit
    /\ res["prod"] # "err"
    /\ \A i \in 1 .. Len(sent) : sent[i].ok \/ res["prod"] = "too_long"

\* C11: on an empty queue, a send of a payload of at most Q - PrefixSize
\* bytes is not rejected, does not wait for the consumer, and the recv that
\* follows yields exactly that payload.
C11_RoundTripUpToMax ==
    FirstSendOnly =>
        /\ ~ProducerWaits
        /\ res["prod"] # "too_long"
        /\ Len(recvd) >= 1 => (Len(sent) >= 1 /\ recvd[1] = sent[1].data)

\* The message of maximum size has been sent on the empty queue and
\* received.
C11_Witness ==
    /\ FirstSendOnly
    /\ Len(recvd) >= 1
    /\ Len(sent) >= 1
    /\ Len(sent[1].data) = QueueSize - PrefixSize
    /\ recvd[1] = sent[1].data

\* The consumer sleeps or is about to sleep in right_lock.wait().
ConsumerWaits == pc["cons"] \in {"wait", "wait_fx", "wait_pk"}

\* The first send committed a zero-length message and no other send has
\* started.
EmptyFirstMessage ==
    /\ sends = 1
    /\ Len(sent) = 1
    /\ sent[1].ok
    /\ sent[1].data = <<>>

Blocked(t) == pc[t] \in {"lock_fx", "lock_pk", "wait", "wait_fx", "wait_pk"}

WriteBody ==
    {"alloc", "sub_left", "sub_right", "load_right", "zero", "cb", "copy",
     "prefix", "commit"}

ReadBody == {"rload_left", "rload_right", "rprefix", "rstore", "rcb"}

MutexOps == {"lock", "lock_fx", "lock_pk", "wait", "wait_fx", "wait_pk",
             "drop", "wake"}

\* Thread p is between the return of right_lock.lock() and the store that
\* releases the right guard.
InWrite(p) ==
    \/ pc[p] \in WriteBody \cup {"begin"}
    \/ pc[p] \in MutexOps /\ ret[p] \in WriteBody
    \/ pc[p] = "drop" /\ mtx[p] = "right"

\* Thread c is between the return of left_lock.lock() and the store that
\* releases the left guard.
InRead(c) ==
    \/ pc[c] \in ReadBody
    \/ pc[c] \in MutexOps /\ mtx[c] = "right" /\ ret[c] \in ReadBody
    \/ pc[c] = "drop" /\ mtx[c] = "left"

C15_LockMutualExclusion ==
    \A m \in Mutexes :
        /\ Cardinality(half_guards[m]) <= 1
        /\ Cardinality(guards[m]) <= 1
        /\ (half_guards[m] # {} => half_lock[m] \in {1, 2})
        /\ (guards[m] # {} => lock[m] = 1)

\* One thread holds the left guard of the futex control while another
\* sleeps on the word and a third is about to sleep on it.
C15_Witness ==
    /\ half_guards["left"] = {"prod"}
    /\ pc["prod"] = "x_held"
    /\ pc["prod2"] = "x_pk" /\ mtx["prod2"] = "left"
    /\ pc["cons"] = "x_fx" /\ mtx["cons"] = "left"
    /\ half_lock["left"] = 2

\* The range of the producer's next copy and of the consumer's next read,
\* as <<offset, length>> from the base of the double mapping.
WriteRange ==
    IF pc["prod"] = "zero" THEN <<a_right, PrefixSize>>
    ELSE IF pc["prod"] = "copy" THEN <<a_right + total_written, Len(buf)>>
    ELSE IF pc["prod"] = "prefix" THEN <<len_ptr, PrefixSize>>
    ELSE <<0, 0>>

ReadRange ==
    IF pc["cons"] = "rprefix" THEN <<r_left, PrefixSize>>
    ELSE IF pc["cons"] = "rcb" THEN <<r_left, PrefixSize + r_size>>
    ELSE <<0, 0>>

\* C16: both offsets stay inside the double mapping, left.offset <=
\* right.offset <= 2Q in every reachable state, and every range the producer
\* writes and every range the consumer reads lies in [0, 2Q).
C16_OffsetsInsideMapping ==
    /\ left <= right
    /\ right <= 2 * QueueSize
    /\ InMapping(WriteRange[1], WriteRange[2])
    /\ InMapping(ReadRange[1], ReadRange[2])

\* The producer is between the two fetch_subs of a rewind.
MidRewind == pc["prod"] = "sub_right"

\* C17: a rewind is performed only when both offsets are >= Q and subtracts
\* exactly Q from each; it is atomic for the consumer, which never loads an
\* offset between the two subtractions nor one offset before the rewind and
\* the other after it; and the producer's computation after a rewind does
\* not pair the left offset loaded before the rewind with the right offset
\* loaded after it.
C17_RewindAtomic ==
    /\ [](/\ pc["prod"] = "sub_left" => (left >= QueueSize /\ right >= QueueSize)
          /\ MidRewind => guards["left"] = {"prod"}
          /\ pc["cons"] = "rload_right" => r_left = left
          /\ pc["prod"] = "load_right" => a_left <= left)
    /\ [][/\ (pc["prod"] = "sub_left" /\ pc'["prod"] = "sub_right")
                => (left' = left - QueueSize /\ right' = right)
          /\ (MidRewind /\ ~MidRewind')
                => (right' = right - QueueSize /\ left' = left)]_vars

\* The producer found no room and is in left_lock.wait(), about to test the
\* word or asleep on it.
NoRoomWait == pc["prod"] \in {"wait", "wait_fx", "wait_pk"} /\ mtx["prod"] = "left"

\* C18: a producer that found no room for the pending write blocks.  From
\* its wait it goes back to the offsets only once left.offset differs from
\* the value the failed space test used; while the consumer is idle and
\* left.offset is unchanged it takes no step back to the test.
C18_ProducerParksWhenFull ==
    [][(NoRoomWait /\ pc'["prod"] = "alloc") => left # a_left]_vars

\* The handshake call of q has returned a result that is not the owner's,
\* and the result is alive: q builds its control on the header or uses it.
ReturnedPeer(q) ==
    /\ hs[q].pc \in {"new", "new_right", "new_futex", "failed", "use"}
    /\ ~hs[q].owner

\* o is an owner that has not called mark_ready: it waits for a peer, or
\* prepares the header, or is about to mark the queue ready.
NotReady(o) ==
    /\ hs[o].owner
    /\ hs[o].pc \in {"uds_accept", "new", "new_futex", "zeroing", "mark"}

\* q and o share a queue: the same named file, or the two ends of a stream.
SameQueue(q, o) ==
    \/ hs[q].variant = "named_file" /\ hs[o].variant = "named_file"
    \/ /\ hs[q].variant = "uds_memfd" /\ hs[o].variant = "uds_memfd"
       /\ hs[q].peer = o
       /\ hs[o].peer = q

LiveOwners ==
    {p \in Procs : /\ hs[p].variant = "named_file"
                   /\ hs[p].owner
                   /\ hs[p].pc \in {"new", "zeroing", "mark", "nf_relock",
                                    "use"}}

\* C20: for one queue at most one live handshake result has is_owner() =
\* true, whatever the number of processes that call the handshake on the
\* path and however their calls interleave, a call that arrives while the
\* owner initializes or downgrades its lock included.
C20_SingleOwner == Cardinality(LiveOwners) <= 1

\* The handshake call of p has returned and its result is alive.
LiveResult(p) ==
    hs[p].pc \in {"new", "new_right", "new_futex", "zeroing", "mark",
                  "nf_relock", "failed", "use"}

\* C21: the queue capacity a handshake produces is a positive multiple of
\* the page size, and it is the same on the owner and on the peer of a queue
\* (the peer accepts a backing object only of size P + k * P, k >= 1).
C21_CapacityPageMultiple ==
    \A p \in Procs :
        LiveResult(p) =>
            /\ hs[p].queue_size > 0
            /\ hs[p].queue_size % PAGE_SIZE = 0
            /\ \A o \in Procs \ {p} :
                  (LiveResult(o) /\ SameQueue(p, o))
                      => hs[o].queue_size = hs[p].queue_size

\* o and p are the two ends of one stream and nothing sent is unread.
Quiescent(o, p) ==
    /\ hs[o].owner /\ hs[o].peer = p /\ Connected(o)
    /\ ~hs[p].owner /\ hs[p].peer = o /\ Connected(p)
    /\ stream[o] = <<>> /\ stream[p] = <<>>

\* In this step p reads the message at the head of the stream of q.
Reads(p, q) ==
    /\ hs[p].peer = q
    /\ stream[q] # <<>>
    /\ stream'[q] = Tail(stream[q])
    /\ hs'[q] = hs[q]

\* In this step p takes the descriptor it is given: the loop of uds_memfd
\* queues it, recv_fd returns it.
TakesFd(p) ==
    IF hs[p].pc = "uds_recv"
    THEN Len(hs'[p].recv_fd_queue) = Len(hs[p].recv_fd_queue) + 1
    ELSE hs'[p].last = "ok" /\ Len(hs'[p].fd_got) = Len(hs[p].fd_got) + 1

\* In this step the call of p ends with an error.
FailsFd(p) ==
    IF hs[p].pc = "uds_recv"
    THEN hs'[p] = NoHandshake
    ELSE hs'[p].last = "err" /\ hs'[p].fd_got = hs[p].fd_got

\* C22: a descriptor message read from the socket is accepted exactly if
\* its payload is the reader's next counter value; one with another payload
\* (the negotiation message of the handshake aside) ends the call with an
\* error; and when nothing sent is unread the counters of the two ends are
\* equal.
C22_CounterTagsDescriptors ==
    /\ [](\A o, p \in Procs :
             Quiescent(o, p) => hs[o].counter = hs[p].counter)
    /\ [][\A p, q \in Procs :
             Reads(p, q) =>
                 LET tag == Head(stream[q]).payload
                 IN  /\ TakesFd(p) <=> tag = hs[p].counter + 1
                     /\ (tag # hs[p].counter + 1
                            /\ ~(hs[p].pc = "uds_recv"
                                    /\ tag = NEGOTIATION_MESSAGE))
                           => FailsFd(p)]_vars

\* Both ends are in use and have been given descriptors, the owner by
\* recv_fd from the socket; the last message the other end read was out of
\* order and refused; nothing is unread.
C22_Witness ==
    \E o, p \in Procs :
        /\ Quiescent(o, p)
        /\ hs[o].pc = "use" /\ hs[p].pc = "use"
        /\ hs[o].fd_got # <<>> /\ hs[p].fd_got # <<>>
        /\ hs[p].last = "err"
        /\ hs[o].counter = MaxFds

\* The descriptors EventFdControl::new of the owner sends, before
\* mark_ready sends the negotiation message.
EventFds == {"left_event", "right_event"}

IsEventFd(fd) == fd \in EventFds

\* What o has sent before its negotiation message.
SentEarly(o) == SelectSeq(hs[o].fd_sent, IsEventFd)

\* The descriptors p has been given so far, and those it will be given by
\* its next calls of recv_fd without a read from the socket.
Delivery(p) == hs[p].fd_got \o hs[p].recv_fd_queue

\* C23: the descriptors the owner sent before the negotiation message are
\* queued by the handshake of the peer and returned by its recv_fd in the
\* order they were sent, ahead of every descriptor read from the socket
\* later, each one once.
C23_EarlyDescriptorsInOrder ==
    \A o, p \in Procs :
        (/\ hs[o].owner /\ hs[o].peer = p /\ Connected(o)
         /\ ~hs[p].owner /\ hs[p].peer = o /\ Connected(p))
        => IF hs[p].pc \in {"uds_remove", "uds_recv"}
           THEN /\ hs[p].fd_got = <<>>
                /\ IsPrefix(hs[p].recv_fd_queue, SentEarly(o))
                /\ Len(hs[p].recv_fd_queue) + Len(stream[o])
                       >= Len(SentEarly(o))
           ELSE /\ IsPrefix(SentEarly(o), Delivery(p))
                /\ Len(hs[p].fd_got) >= Len(SentEarly(o))
                       => hs[p].recv_fd_queue = <<>>
                /\ Len(hs[p].fd_got) < Len(SentEarly(o))
                       => Delivery(p) = SentEarly(o)
                /\ \A i \in 1 .. Len(hs[p].fd_got) :
                       i > Len(SentEarly(o)) => hs[p].fd_got[i] \notin EventFds

\* The peer has been given the two eventfds from the queue of its handshake
\* and then a descriptor read from the socket.
C23_Witness ==
    \E o, p \in Procs :
        /\ hs[o].owner /\ hs[o].peer = p /\ Connected(o)
        /\ ~hs[p].owner /\ hs[p].peer = o /\ Connected(p)
        /\ Len(SentEarly(o)) = 2
        /\ Len(hs[p].fd_got) = 3
        /\ hs[p].recv_fd_queue = <<>>

\* The eventfd of the side holds a sentinel that no read has taken yet:
\* every other write adds 1 and there are fewer than 0xDEAD of them.
SentinelUnread(side) == event[side] >= DEAD

\* C24: a wait whose poll times out writes 0xDEAD to the eventfd of the
\* other side and panics, it never returns Ok; and a wait that reads an
\* eventfd to which the sentinel was written panics too, whatever
\* notifications were pending on that eventfd.
C24_SentinelAborts ==
    [][\A t \in EvProcs :
          /\ (ev[t].pc = "poll" /\ ev'[t].pc \notin {"poll", "read"})
                => /\ ev'[t].pc = "panic"
                   /\ event'[Other(ev[t].side)]
                         = event[Other(ev[t].side)] + DEAD
          /\ (ev[t].pc = "read" /\ ev'[t].pc # "read"
                               /\ SentinelUnread(ev[t].side))
                => ev'[t].pc = "panic"]_vars

\* C25: on a fresh queue and with no rewind, after k sends and no recv
\* right.offset is the sum of the payload lengths plus one prefix each and
\* left.offset is 0; each recv advances left.offset by the prefix size plus
\* the length of the next message sent; after k recvs the offsets are equal.
C25_OffsetAccounting ==
    /\ []((pc["prod"] = "idle" /\ pc["cons"] = "idle" /\ recvd = <<>>)
            => (left = 0 /\ right = RefBytes(1)))
    /\ [][left' # left
            => (/\ Len(recvd) < Len(sent)
                /\ left' = left + PrefixSize
                                + Len(sent[Len(recvd) + 1].data))]_vars
    /\ []((pc["prod"] = "idle" /\ pc["cons"] = "idle"
                                /\ Len(recvd) = Len(sent))
            => left = right)

\* export_state: the queue_size bytes at left.ptr and those at right.ptr.
ExportBuf == [i \in 0 .. (QueueSize - 1) |-> Load(i)]

ExportRightBuf == [i \in 0 .. (QueueSize - 1) |-> Load(QueueSize + i)]

\* C26: once the queue is mapped, after every store the byte at B + i
\* equals the byte at B + Q + i for every i in [0, Q): the two mappings
\* show the same bytes of the file, which are the ring of the engine.
C26_MappingsAlias ==
    mm.pc = "ready" =>
        /\ ExportBuf = ExportRightBuf
        /\ ExportBuf = ring
        /\ \A v \in Virt : mm.vm[v] - PAGE_SIZE = Phys(v)

\* The last store went through the second mapping and shows, not zero, in
\* the first; an earlier store went elsewhere.
C26_Witness ==
    /\ mm.pc = "ready"
    /\ mm.stores = MaxStores
    /\ mm.last >= QueueSize
    /\ Load(mm.last - QueueSize) # 0
    /\ \E i \in 0 .. (QueueSize - 1) : i # mm.last - QueueSize /\ Load(i) # 0

\* The i-th message sent lies across the end of the first mapping: its
\* prefix starts below Q and its payload ends above Q.
Straddles(i) ==
    /\ sent[i].at < QueueSize
    /\ sent[i].at + PrefixSize + Len(sent[i].data) > QueueSize

\* C27: a message that straddles the boundary between the two mappings is
\* passed to the callback of recv as one slice whose bytes are the payload
\* sent; messages written later at the wrapped positions do not change it
\* before it is consumed.
C27_StraddlingMessageIntact ==
    \A j \in 1 .. Len(recvd) :
        (j <= Len(sent) /\ Straddles(j)) => recvd[j] = sent[j].data

\* recv has loaded both offsets and found right.saturating_sub(left) > 0:
\* it is at the assertion.
AtAssertion(c) == pc[c] = "rprefix"

\* C28: whenever recv observes R > L, R - L is strictly more than the size
\* of a prefix, for every sequence of sends the engine accepts, those of
\* zero-length messages included.
C28_RecvAssertion ==
    AtAssertion("cons") => r_right - r_left > PrefixSize

\* The thread t holds the lock of the side, and nobody else does.
Holds(t, side) == guards[side] = {t}

\* C29: every store to left.offset is made by a thread that holds the left
\* lock (the consumer in recv, the producer in a rewind, which holds both
\* locks), every store to right.offset by a thread that holds the right
\* lock, and each side loads the offset of the other side, to decide
\* whether to read, write, rewind or wait, while it holds its own lock.
C29_LockDiscipline ==
    /\ [](/\ pc["cons"] \in {"rload_left", "rload_right", "rprefix", "rstore"}
                => Holds("cons", "left")
          /\ pc["prod"] \in {"sub_left", "sub_right"}
                => (Holds("prod", "left") /\ Holds("prod", "right"))
          /\ pc["prod"] \in {"alloc", "load_right", "commit"}
                => Holds("prod", "right"))
    /\ [][/\ left' # left
                => (pc["cons"] = "rstore" \/ pc["prod"] = "sub_left")
          /\ right' # right
                => (pc["prod"] = "commit" \/ pc["prod"] = "sub_right")]_vars

\* The producer is between the two stores of a rewind, holding both locks,
\* while the consumer is stopped at the left lock.
C29_Witness ==
    /\ MidRewind
    /\ Holds("prod", "left")
    /\ Holds("prod", "right")
    /\ pc["cons"] \in {"lock", "lock_fx", "lock_pk"}
    /\ Len(recvd) >= 1

\* The producer is stopped at the left lock, which it takes for a rewind.
ProducerAtLeftLock ==
    /\ pc["prod"] \in {"lock", "lock_fx", "lock_pk"}
    /\ mtx["prod"] = "left"

\* C30: the consumer does not hold the left lock while it waits for the
\* producer, and no state is reachable in which the producer waits for the
\* left lock while the consumer waits for the producer.
C30_NoLockAcrossWait ==
    /\ ConsumerWaits => "cons" \notin guards["left"]
    /\ ~(ProducerAtLeftLock /\ ConsumerWaits)
\* A thread asleep in the futex_wait of wait(side, expected) although the
\* offset of the side is no longer the expected one.
ParkedOnStale(u) ==
    /\ ev[u].pc = "fx_parked"
    /\ half_offset[ev[u].side] # ev[u].expected

\* A commit_offset(side, ..) whose notify(side) has not returned yet.
NotifyDue(side) ==
    \E t \in EvProcs :
        /\ ev[t].side = side
        /\ ev[t].pc \in {"committed", "fx_wake"}

\* C31: in the futex back-end no wake-up is lost: once commit_offset(side,
\* v) with v other than expected and the notify(side) after it are over,
\* no thread is asleep in wait(side, expected); either the futex wait
\* refused to sleep or the notify saw waiters(side) above zero and woke it.
C31_NoLostWakeup ==
    \A u \in EvProcs : ParkedOnStale(u) => NotifyDue(ev[u].side)

\* A thread in the poll of wait(side, expected) with nothing to read on the
\* eventfd of the side, although the offset is no longer the expected one:
\* the poll can only time out.
PollsInVain(u) ==
    /\ ev[u].pc = "poll"
    /\ event[ev[u].side] = 0
    /\ half_offset[ev[u].side] # ev[u].expected

\* C32: in the eventfd back-end, once commit_offset(side, v) with v other
\* than expected and the notify(side) after it are over, no thread is left
\* in the poll of wait(side, expected) with an empty eventfd, so the waiter
\* returns without timing out.
C32_NotifyReachesWaiter ==
    \A u \in EvProcs : PollsInVain(u) => NotifyDue(ev[u].side)

\* Ok(buf.len()): the count MemeWriter::write returns.
WriteResult == Len(buf)

\* MemeWriter::write is at its copy, with a buf that is not empty and that,
\* added to what the message holds so far, fits the ring.
CopiesWithinLimit ==
    /\ pc["prod"] = "copy"
    /\ ~fault
    /\ Len(buf) >= 1
    /\ total_written + Len(buf) <= QueueSize

\* C33: a write(buf) of the writer adapter with a buf that is not empty and
\* within the size limit returns a count n with 1 <= n <= buf.len(), has
\* copied the first n bytes of buf to position R + total_written of the
\* ring and has added n to total_written.
C33_WriterAccounting ==
    [][(CopiesWithinLimit /\ (pc'["prod"] # "copy" \/ fault'))
          => /\ ~fault'
             /\ WriteResult >= 1
             /\ WriteResult <= Len(buf)
             /\ total_written' = total_written + WriteResult
             /\ \A k \in 1 .. WriteResult :
                   /\ InRing(right + total_written + k - 1)
                   /\ ring'[Phys(right + total_written + k - 1)] = buf[k]]_vars

\* The cached offset is None or at most `bound`.
CacheWithin(cached, bound) == cached = Unknown \/ cached <= bound

\* C34: a cached offset is safe to use: when the producer reads
\* cached_offset(left) under the right lock it is None or at most
\* left.offset; when the consumer reads cached_offset(right) under the left
\* lock it is None or at most right.offset and not beyond the end of the
\* last committed message; rewinds and a peer that attaches late included.
C34_CacheSafe ==
    /\ eng.p.pc = "reserve"
          => CacheWithin(CachedOffset("left"), half_offset["left"])
    /\ eng.c.pc = "det_r"
          => /\ CacheWithin(CachedOffset("right"), half_offset["right"])
             /\ CacheWithin(CachedOffset("right"), eng.committed)

\* The threads between the increment and the decrement of waiters(side).
Waiting(side) == {t \in EvProcs : InsideWait(t, side)}

\* C35: waiters(side) is the number of threads between the increment and
\* the decrement inside wait(side, ..): it is never below zero and it is 0
\* whenever no thread is inside wait(side).
C35_WaitersCount ==
    \A side \in Mutexes :
        /\ waiters[side] >= 0
        /\ waiters[side] = Cardinality(Waiting(side))

\* The threads asleep in futex_wait on the lock word of side m.
Asleep(m) == {t \in Lockers : pc[t] = "x_pk" /\ mtx[t] = m}

\* A wake of the lock word of side m is on its way: a dropping thread is
\* about to call futex_wake, or a thread that left futex_wait is about to
\* swap 2 into the word and will wake a sleeper when it drops its guard.
WakeOnTheWay(m) ==
    \E u \in Lockers : mtx[u] = m /\ pc[u] \in {"x_wake", "x_swap"}

\* The lock word of side m is 0, 1 or 2 and is 0 only when no guard of the
\* side is live, and threads sleep on it only while it reads 2 or a wake is
\* on its way.
LockWordSound(m) ==
    /\ half_lock[m] \in {0, 1, 2}
    /\ (half_lock[m] = 0 => half_guards[m] = {})
    /\ (Asleep(m) # {} => half_lock[m] = 2 \/ WakeOnTheWay(m))

\* The drop of thread t: a swap that found 2 goes on to futex_wake, and
\* futex_wake takes one thread out of futex_wait if any is asleep.
DropWakes(t) ==
    /\ (pc[t] = "x_drop" /\ pc'[t] # "x_drop" /\ half_lock[mtx[t]] = 2)
          => pc'[t] = "x_wake"
    /\ (pc[t] = "x_wake" /\ pc'[t] # "x_wake" /\ Asleep(mtx[t]) # {})
          => Cardinality(Asleep(mtx[t])') = Cardinality(Asleep(mtx[t])) - 1

\* C36: the lock word is in {0, 1, 2} and 0 only without a live guard;
\* the drop that finds the word 2 calls futex_wake, which wakes one of the
\* threads asleep in lock, and threads are asleep only while the word is 2
\* or a wake is on its way; with every runnable thread scheduled and every
\* holder releasing, no thread stays asleep in lock forever while the lock
\* word is 0.
C36_NoLostUnlockWake ==
    /\ [](\A m \in Mutexes : LockWordSound(m))
    /\ [][\A t \in Lockers : DropWakes(t)]_vars
    /\ \A t \in Lockers :
          []<>~(pc[t] = "x_pk" /\ half_lock[mtx[t]] = 0)

\* One thread sleeps on the free left lock word while the thread that the
\* last drop woke is about to swap.
C36_Witness ==
    /\ half_lock["left"] = 0
    /\ pc["cons"] = "x_pk" /\ mtx["cons"] = "left"
    /\ pc["prod2"] = "x_swap" /\ mtx["prod2"] = "left"
    /\ pc["prod"] = "idle"

\* xs is an initial part of ys.
IsPrefixOf(xs, ys) ==
    /\ Len(xs) <= Len(ys)
    /\ \A i \in 1 .. Len(xs) : xs[i] = ys[i]

\* A peer is inside ShmemFutexControl::new, or has left it, in this step.
Attaches == eng.attach' # eng.attach

EndReached == right + total_written + a_size > 2 * QueueSize

\* The ring is full: Q bytes are committed and unread.
RingFull == right - left >= QueueSize

\* The producer leaves the space test of alloc_for_write.
SpaceTested == pc["prod"] = "load_right" /\ pc'["prod"] # "load_right"

\* alloc_for_write saw the rewind condition, `left > self.size`, and went
\* through the rewind before the test.
Rewound == a_left > QueueSize

\* C38: the producer waits on the reader only when the ring is full.  When
\* the space test is taken with the write position at the end of the double
\* mapping while fewer than Q bytes are unread, the reader offset has met
\* the rewind condition and the producer has rewound; and whenever the
\* producer is in its wait for the reader, left.offset has already moved or
\* a committed message is unread, so that a recv can move it.
C38_WaitsOnlyWhenFull ==
    [][~fault =>
         /\ (SpaceTested /\ EndReached /\ ~RingFull) => Rewound
         /\ NoRoomWait' => (left' # a_left' \/ right' > left')]_vars

\* x is a value of a u32.
FitsU32(x) == x >= 0 /\ x <= U32Mod - 1

\* C39: the values R + total_written, L + Q and L + sizeof(prefix) + size
\* that send and recv compute and store are values of a u32 without
\* reduction, and the rewind takes neither offset below 0, on every
\* capacity the handshake accepts.
C39_NoWrap ==
    /\ eng.p.pc \in {"space", "cb", "finish", "rewind_lock", "rewind"}
          => FitsU32(eng.p.R + eng.p.W)
    /\ eng.p.pc = "space" => FitsU32(eng.p.L + eng.Q)
    /\ eng.c.pc = "deliver"
          => \A size \in 0 .. eng.Q :
                PrefixCells(eng.c.L) = {size}
                    => FitsU32(eng.c.L + PrefixSize + size)
    /\ eng.p.pc = "rewind"
          => /\ half_offset["left"] - eng.Q >= 0
             /\ eng.p.R + eng.p.W - eng.Q >= 0
====
